---- MODULE Spec2Model ----
(***************************************************************************)
(* A state-machine model of cosmic-canvas-3d: the ThreeScene component     *)
(* (src/unnamed/part_000), its owner App and the galaxy utilities          *)
(* (src/src/App.tsx).                                                      *)
(*                                                                         *)
(* Numbers are exact rationals <<n, d>> (d > 0, lowest terms).  Times are  *)
(* milliseconds of performance.now().  Math.random() is drawn from the     *)
(* finite set RandomUnit, and rand(min, max) is computed from the draw as  *)
(* the code computes it.                                                   *)
(***************************************************************************)
EXTENDS Integers, Sequences, FiniteSets, TLC

\* ------------------------------------------------------------------ bounds
\* The clock is followed for MaxFrames frame periods.
MaxFrames == 9
\* The largest numGalaxies a user event selects.
MaxGalaxies == 2
\* Instances created over a run (object identities 1..MaxCreated).
MaxCreated == 4
\* User events over a run (sliders, buttons, camera drags, leaving the page).
MaxEvents == 2
\* The numbers of the galaxy utilities are kept to 1/Precision.
Precision == 1000
\* The user acts within the first LastEventFrame frame periods.
LastEventFrame == 3

\* ------------------------------------------------------- program constants
\* rand(0, 3000): the upper limit of the disintegration delay, ms.
DelayMaxMs == 3000
\* performance.now() is in ms, durations are in seconds.
MsPerSecond == 1000
\* The factor in rotation.y += base * multiplier * 100.
RotationFactor == 100
\* App's initial galaxySpread.
DefaultSpread == 150
\* The spread of the configure(spread=200) scenario, a slider position.
OtherSpread == 200

\* The time between two animation frames, in ms: requestAnimationFrame runs
\* animate once per period, here one second.
FramePeriod == MsPerSecond
\* Granularity of the clock, in ms.
Quantum == FramePeriod
\* The clock is not advanced beyond MaxTime ms.
MaxTime == MaxFrames * FramePeriod
\* The user acts no later than this time, in ms.
LastEventTime == LastEventFrame * FramePeriod

\* null: the empty tuple, which equals no number, vector, record or object.
Null == <<>>

\* ----------------------------------------------------------------- numbers
RECURSIVE GCD(_, _)
GCD(a, b) == IF b = 0 THEN a ELSE GCD(b, a % b)

Abs(n) == IF n < 0 THEN -n ELSE n

\* The rational n/d in lowest terms with a positive denominator.
Rat(n, d) ==
    LET g == GCD(Abs(n), Abs(d))
        s == IF d < 0 THEN -1 ELSE 1
    IN  <<(s * n) \div g, (s * d) \div g>>

FromInt(n) == <<n, 1>>
Zero == <<0, 1>>
One == <<1, 1>>

\* Sums and products are reduced before they are multiplied out, so that
\* intermediate values stay small.
RatAdd(a, b) ==
    LET g == GCD(a[2], b[2])
    IN  Rat(a[1] * (b[2] \div g) + b[1] * (a[2] \div g), (a[2] \div g) * b[2])
RatNeg(a) == <<-a[1], a[2]>>
RatSub(a, b) == RatAdd(a, RatNeg(b))
RatMul(a, b) ==
    LET g1 == GCD(Abs(a[1]), b[2])
        g2 == GCD(Abs(b[1]), a[2])
    IN  Rat((a[1] \div g1) * (b[1] \div g2), (a[2] \div g2) * (b[2] \div g1))
RatDiv(a, b) == RatMul(a, Rat(b[2], b[1]))
RatLeq(a, b) ==
    LET g == GCD(a[2], b[2])
    IN  a[1] * (b[2] \div g) <= b[1] * (a[2] \div g)
RatLt(a, b) == ~RatLeq(b, a)
RatMin(a, b) == IF RatLeq(a, b) THEN a ELSE b
\* Math.floor
Floor(a) == a[1] \div a[2]

\* THREE.Vector3 as a triple of rationals.
Vec(x, y, z) == <<x, y, z>>
VecScale(v, k) == <<RatMul(v[1], k), RatMul(v[2], k), RatMul(v[3], k)>>
\* Vector3.lerpVectors(v1, v2, alpha) = v1 + (v2 - v1) * alpha, per component.
LerpVectors(v1, v2, alpha) ==
    [c \in 1..3 |-> RatAdd(v1[c], RatMul(RatSub(v2[c], v1[c]), alpha))]
\* The squared distance of v from the origin.
LengthSq(v) ==
    RatAdd(RatMul(v[1], v[1]), RatAdd(RatMul(v[2], v[2]), RatMul(v[3], v[3])))

\* ------------------------------------------------------- JavaScript numbers
\* A number of the galaxy utilities is NaN, an infinity, or a rational: where
\* a double keeps 53 bits, the result of an operation is kept to the nearest
\* multiple of 1/Precision.  The sign of zero is left out.
Round(x) == Rat(Floor(RatAdd(RatMul(x, FromInt(Precision)), Rat(1, 2))), Precision)
NaN == <<0, 0>>
Infinity == <<1, 0>>
NegInfinity == <<-1, 0>>
IsNaN(a) == a = NaN
\* Number.isFinite
IsFinite(a) == a[2] # 0
Sign(a) == IF a[1] > 0 THEN 1 ELSE IF a[1] < 0 THEN -1 ELSE 0

\* a + b
NumAdd(a, b) ==
    IF IsNaN(a) \/ IsNaN(b) THEN NaN
    ELSE IF IsFinite(a) /\ IsFinite(b) THEN Round(RatAdd(a, b))
    ELSE IF IsFinite(a) THEN b
    ELSE IF IsFinite(b) \/ a = b THEN a
    ELSE NaN
NumNeg(a) == <<-a[1], a[2]>>
\* a - b
NumSub(a, b) == NumAdd(a, NumNeg(b))
\* a * b: 0 times an infinity is NaN.
NumMul(a, b) ==
    IF IsNaN(a) \/ IsNaN(b) THEN NaN
    ELSE IF IsFinite(a) /\ IsFinite(b) THEN Round(RatMul(a, b))
    ELSE IF Sign(a) * Sign(b) = 0 THEN NaN
    ELSE <<Sign(a) * Sign(b), 0>>
\* a / b: 0 / 0 and infinity / infinity are NaN, x / 0 is an infinity.
NumDiv(a, b) ==
    IF IsNaN(a) \/ IsNaN(b) THEN NaN
    ELSE IF ~IsFinite(b) THEN (IF IsFinite(a) THEN Zero ELSE NaN)
    ELSE IF Sign(b) = 0 THEN (IF Sign(a) = 0 THEN NaN ELSE <<Sign(a), 0>>)
    ELSE IF ~IsFinite(a) THEN <<Sign(a) * Sign(b), 0>>
    ELSE Round(RatDiv(a, b))
\* a < b and a > b: false when either is NaN.
NumLt(a, b) ==
    IF IsNaN(a) \/ IsNaN(b) THEN FALSE
    ELSE IF IsFinite(a) /\ IsFinite(b) THEN RatLt(a, b)
    ELSE (a = NegInfinity /\ b # NegInfinity) \/ (b = Infinity /\ a # Infinity)
NumGt(a, b) == NumLt(b, a)
\* a <= b
NumLeq(a, b) == NumLt(a, b) \/ (~IsNaN(a) /\ a = b)
\* Math.min and Math.max: NaN when either is NaN.
MathMin(a, b) ==
    IF IsNaN(a) \/ IsNaN(b) THEN NaN ELSE IF NumLt(b, a) THEN b ELSE a
MathMax(a, b) ==
    IF IsNaN(a) \/ IsNaN(b) THEN NaN ELSE IF NumLt(a, b) THEN b ELSE a

\* Math.pow(x, e) for 0 <= x <= 1 and 0 < e <= 2, by the chord in e through
\* x^1 and x^2: x * (1 + (1 - e) * (1 - x)).  It is exact at x = 0 and at
\* x = 1, increasing in x, and within [0, 1]; NaN for NaN.
MathPow(x, e) ==
    NumMul(x, NumAdd(One, NumMul(NumSub(One, e), NumSub(One, x))))
\* Math.sqrt(x) for 0 <= x <= 1, as Math.pow(x, 0.5).
MathSqrt(x) == MathPow(x, Rat(1, 2))

\* --------------------------------------------------------------- randomness
\* Draws of Math.random(), which returns a value in [0, 1).
RandomUnit == {Zero, Rat(9, 10)}

\* rand(min, max) = Math.random() * (max - min) + min, for the draw u.
rand(u, min, max) == RatAdd(RatMul(u, RatSub(max, min)), min)

\* sin and cos at the quarter turns q * pi/2.
Sin(q) == CASE q % 4 = 0 -> 0 [] q % 4 = 1 -> 1 [] q % 4 = 2 -> 0 [] OTHER -> -1
Cos(q) == CASE q % 4 = 0 -> 1 [] q % 4 = 1 -> 0 [] q % 4 = 2 -> -1 [] OTHER -> 0

\* pi, as 22/7.
Pi == Rat(22, 7)
\* The quarter turn nearest to the angle, which is in radians.
QuarterTurns(angle) ==
    (RatAdd(RatDiv(angle, RatDiv(Pi, FromInt(2))), Rat(1, 2))[1])
    \div (RatAdd(RatDiv(angle, RatDiv(Pi, FromInt(2))), Rat(1, 2))[2])
\* Math.cos and Math.sin, taken at the nearest quarter turn; NaN for NaN and
\* the infinities.
MathCos(angle) == IF IsFinite(angle) THEN FromInt(Cos(QuarterTurns(angle))) ELSE NaN
MathSin(angle) == IF IsFinite(angle) THEN FromInt(Sin(QuarterTurns(angle))) ELSE NaN

\* Draws of the pair (phi, theta) = (acos(2u - 1), 2 pi u'), in quarter turns:
\* u = 0 gives phi = pi, u = 1/2 gives phi = pi/2; u' = 0, 1/4 give theta = 0, pi/2.
SphereAngles == {<<2, 0>>, <<1, 1>>}

\* The point at distance r in direction (phi, theta).
SpherePoint(r, a) ==
    Vec(RatMul(r, FromInt(Sin(a[1]) * Cos(a[2]))),
        RatMul(r, FromInt(Sin(a[1]) * Sin(a[2]))),
        RatMul(r, FromInt(Cos(a[1]))))

\* ------------------------------------------------------- galaxy utilities
\* randInt(min, max) = Math.floor(rand(min, max + 1)).

\* A faulty variant of randInt: the range is one too wide.
randIntWide(u, min, max) == Floor(rand(u, FromInt(min), FromInt(max + 2)))

randInt(u, min, max) == Floor(rand(u, FromInt(min), FromInt(max + 1)))

\* ------------------------------------------------------------- THREE.Color
\* A THREE.Color is the triple <<r, g, b>>.  The operators are those of
\* three.js that the utilities call, in its working colour space.
Trunc(a) == IF a[1] >= 0 THEN Floor(a) ELSE -Floor(RatNeg(a))
\* x % 1.0 of JavaScript, which has the sign of x.
Remainder1(x) == IF IsFinite(x) THEN RatSub(x, FromInt(Trunc(x))) ELSE NaN
\* MathUtils.euclideanModulo(n, 1)
euclideanModulo1(n) == IF IsFinite(n) THEN RatSub(n, FromInt(Floor(n))) ELSE NaN
\* MathUtils.clamp(value, min, max) = Math.max(min, Math.min(max, value))
clamp(value, min, max) == MathMax(min, MathMin(max, value))

\* hue2rgb(p, q, t) of three.js, the two adjustments of t first.
HueWrap(t) == IF NumLt(t, Zero) THEN NumAdd(t, One) ELSE t
HueUnwrap(t) == IF NumGt(t, One) THEN NumSub(t, One) ELSE t
HueRamp(p, q, t) ==
    IF NumLt(t, Rat(1, 6))
    THEN NumAdd(p, NumMul(NumMul(NumSub(q, p), FromInt(6)), t))
    ELSE IF NumLt(t, Rat(1, 2)) THEN q
    ELSE IF NumLt(t, Rat(2, 3))
    THEN NumAdd(p, NumMul(NumMul(NumSub(q, p), FromInt(6)), NumSub(Rat(2, 3), t)))
    ELSE p
hue2rgb(p, q, t) == HueRamp(p, q, HueUnwrap(HueWrap(t)))

\* Color.setHSL(h, s, l) for h in [0, 1) and s, l as clamped: with p and q
\* of three.js, p = l <= 0.5 ? l * (1 + s) : l + s - l * s and q = 2 l - p.
HslChannels(h, p, q) ==
    <<hue2rgb(q, p, NumAdd(h, Rat(1, 3))), hue2rgb(q, p, h),
      hue2rgb(q, p, NumSub(h, Rat(1, 3)))>>
HslUpper(s, l) ==
    IF NumLeq(l, Rat(1, 2)) THEN NumMul(l, NumAdd(One, s))
    ELSE NumSub(NumAdd(l, s), NumMul(l, s))
HslToRgb(h, s, l, p) ==
    IF s = Zero THEN <<l, l, l>>
    ELSE HslChannels(h, p, NumSub(NumMul(FromInt(2), l), p))
HslClamped(h, s, l) == HslToRgb(h, s, l, HslUpper(s, l))
setHSL(h, s, l) ==
    HslClamped(euclideanModulo1(h), clamp(s, Zero, One), clamp(l, Zero, One))

\* Color.getHSL: [h, s, l] of the colour c, with max and min its largest and
\* smallest channel, d their difference and l the lightness.
HueOf(c, max, d) ==
    NumDiv(IF max = c[1] /\ ~IsNaN(max)
           THEN NumAdd(NumDiv(NumSub(c[2], c[3]), d),
                       IF NumLt(c[2], c[3]) THEN FromInt(6) ELSE Zero)
           ELSE IF max = c[2] /\ ~IsNaN(max)
           THEN NumAdd(NumDiv(NumSub(c[3], c[1]), d), FromInt(2))
           ELSE IF max = c[3] /\ ~IsNaN(max)
           THEN NumAdd(NumDiv(NumSub(c[1], c[2]), d), FromInt(4))
           ELSE NaN,
           FromInt(6))
SaturationOf(max, min, d, l) ==
    IF NumLeq(l, Rat(1, 2)) THEN NumDiv(d, NumAdd(max, min))
    ELSE NumDiv(d, NumSub(NumSub(FromInt(2), max), min))
HslOf(c, max, min, l) ==
    IF min = max /\ ~IsNaN(max) THEN [h |-> Zero, s |-> Zero, l |-> l]
    ELSE [h |-> HueOf(c, max, NumSub(max, min)),
          s |-> SaturationOf(max, min, NumSub(max, min), l),
          l |-> l]
HslOfRange(c, max, min) == HslOf(c, max, min, NumDiv(NumAdd(min, max), FromInt(2)))
getHSL(c) ==
    HslOfRange(c, MathMax(c[1], MathMax(c[2], c[3])), MathMin(c[1], MathMin(c[2], c[3])))

\* Color.offsetHSL(h, s, l) = setHSL(hsl.h + h, hsl.s + s, hsl.l + l)
OffsetFrom(hsl, h, s, l) == setHSL(NumAdd(hsl.h, h), NumAdd(hsl.s, s), NumAdd(hsl.l, l))
offsetHSL(c, h, s, l) == OffsetFrom(getHSL(c), h, s, l)

\* Color.lerpColors(color1, color2, alpha); a.lerp(b, alpha) is the same,
\* on a itself.
lerpColors(color1, color2, alpha) ==
    [k \in 1..3 |-> NumAdd(color1[k], NumMul(NumSub(color2[k], color1[k]), alpha))]
\* Color.multiplyScalar(s)
multiplyScalar(c, scalar) == [k \in 1..3 |-> NumMul(c[k], scalar)]

\* generateRandomGalaxyParameters(universeRadius); d holds one draw of
\* Math.random() per field.  The fields are those the scene reads, and the
\* ones its invariants are about.
generateRandomGalaxyParameters(d, universeRadius) ==
    LET individualGalaxyRadius ==
            rand(d.radius, RatMul(universeRadius, Rat(2, 100)),
                 RatMul(universeRadius, Rat(8, 100)))
    IN  [radius |-> individualGalaxyRadius,
         thickness |-> RatMul(individualGalaxyRadius,
                              rand(d.thickness, Rat(4, 100), Rat(1, 10))),
         numArms |-> randInt(d.numArms, 2, 5),
         armTightness |-> rand(d.armTightness, Rat(15, 100), Rat(8, 10)),
         armAngularWidth |-> rand(d.armAngularWidth, Rat(4, 10), Rat(15, 10)),
         coreRatio |-> rand(d.coreRatio, Rat(5, 100), Rat(15, 100)),
         centerBrightColor |->
             setHSL(rand(d.centerHue, Rat(8, 100), Rat(15, 100)),
                    rand(d.centerSaturation, Rat(7, 10), One),
                    rand(d.centerLightness, Rat(85, 100), Rat(95, 100))),
         armBaseColor |->
             setHSL(d.armBaseHue, rand(d.armSaturation, Rat(6, 10), Rat(9, 10)),
                    rand(d.armLightness, Rat(4, 10), Rat(6, 10))),
         armEdgeColor |->
             setHSL(Remainder1(RatAdd(d.armBaseHue,
                                      rand(d.edgeHue, Rat(-5, 100), Rat(5, 100)))),
                    rand(d.edgeSaturation, Rat(5, 10), Rat(8, 10)),
                    rand(d.edgeLightness, Rat(5, 10), Rat(7, 10))),
         nebulaColor |->
             setHSL(Remainder1(RatAdd(d.armBaseHue,
                                      rand(d.nebulaHue, Rat(2, 10), Rat(4, 10)))),
                    rand(d.nebulaSaturation, Rat(7, 10), One),
                    rand(d.nebulaLightness, Rat(6, 10), Rat(75, 100))),
         nebulaProbability |-> rand(d.nebula, Rat(5, 100), Rat(25, 100)),
         numStarPoints |-> randInt(d.numStarPoints, 4000, 12000),
         dustColor |->
             setHSL(d.dustHue, rand(d.dustSaturation, Rat(1, 10), Rat(3, 10)),
                    rand(d.dustLightness, Rat(5, 100), Rat(15, 100))),
         dustNebulaColor |->
             setHSL(d.dustNebulaHue, rand(d.dustNebulaSaturation, Rat(2, 10), Rat(4, 10)),
                    rand(d.dustNebulaLightness, Rat(1, 10), Rat(2, 10))),
         dustNebulaProbability |-> rand(d.dustNebula, Rat(2, 100), Rat(10, 100)),
         dustOpacity |-> rand(d.dustOpacity, Rat(2, 10), Rat(5, 10)),
         dustThicknessMultiplier |-> rand(d.dustThickness, Rat(12, 10), FromInt(2)),
         wobbleAmplitude |-> rand(d.wobbleAmplitude, Rat(5, 100), Rat(2, 10)),
         wobbleFrequency |-> rand(d.wobbleFrequency, Rat(15, 10), FromInt(4)),
         baseArmSpeed |-> rand(d.baseArmSpeed, Rat(-15, 10000), Rat(15, 10000)),
         baseOrbitSpeed |-> rand(d.baseOrbitSpeed, Rat(-8, 10000), Rat(8, 10000))]

\* A faulty variant of NumDustPoints: the quotient is rounded up.
NumDustPointsUp(u, numStarPoints) ==
    -Floor(RatNeg(RatDiv(FromInt(numStarPoints), rand(u, FromInt(3), FromInt(6)))))

\* Line 198: numDustPoints = Math.floor(numStarPoints / rand(3, 6))
NumDustPoints(u, numStarPoints) ==
    Floor(RatDiv(FromInt(numStarPoints), rand(u, FromInt(3), FromInt(6))))

\* createSingleGalaxyGroup(params): the two point clouds.  A THREE.Points is
\* modelled by its point count, rotation.y, uniform scale and material
\* opacity; a new PointsMaterial has opacity 1 unless it is given one.
createSingleGalaxyGroup(d, params) ==
    LET numDustPoints == NumDustPoints(d.dustDivisor, params.numStarPoints)
        starSystem == [numPoints |-> params.numStarPoints, rotationY |-> Zero,
                       scale |-> One, opacity |-> One]
        dustSystem ==
            IF numDustPoints > 0
            THEN [numPoints |-> numDustPoints, rotationY |-> Zero,
                  scale |-> One, opacity |-> params.dustOpacity]
            ELSE Null
    IN  [starSystem |-> starSystem,
         dustSystem |-> dustSystem,
         originalStarMaterialOpacity |-> starSystem.opacity,
         originalDustMaterialOpacity |->
             IF dustSystem = Null THEN Null ELSE dustSystem.opacity]

\* ---------------------------------------------------- the points of a galaxy
\* The points of createSingleGalaxyGroup, for the parameters g and the draws
\* p of one point: one draw of Math.random() per call site.
TwoPi == RatMul(FromInt(2), Pi)
PointDrawNames ==
    {"progress", "extension", "arm", "armOffset", "spiral", "wobble", "coreAngle",
     "corePull", "corePullAmount", "y1", "y2", "brightness", "nebula", "hueOffset",
     "saturationOffset", "lightnessOffset"}

\* (Math.random() - 0.5) * width
Jitter(u, width) == RatMul(RatSub(u, Rat(1, 2)), width)

\* Lines 200-203: getArmWobble, with normalizedRadiusForWobble computed.
ArmWobble(p, g, normalizedRadiusForWobble, armIdx) ==
    NumMul(NumMul(MathSin(NumAdd(NumMul(NumMul(normalizedRadiusForWobble,
                                               g.wobbleFrequency), TwoPi),
                                 NumMul(NumMul(FromInt(armIdx), Pi),
                                        rand(p.wobble, Rat(1, 2), One)))),
                  g.wobbleAmplitude),
           NumSub(One, NumMul(normalizedRadiusForWobble, Rat(1, 2))))
getArmWobble(p, g, radialDist, currentRadius, armIdx) ==
    ArmWobble(p, g, NumDiv(radialDist, currentRadius), armIdx)

\* Lines 215, 286: armChoice = Math.floor(Math.random() * numArms)
ArmChoice(p, g) == Floor(RatMul(p.arm, FromInt(g.numArms)))
\* Lines 216, 287: baseAngleForArm = (armChoice / numArms) * Math.PI * 2
BaseAngleForArm(g, armChoice) ==
    NumMul(NumDiv(FromInt(armChoice), FromInt(g.numArms)), TwoPi)
\* Lines 220, 292: normalizedRadiusForColor
NormalizedRadiusForColor(g, radialDistance, extensionFactor) ==
    MathMin(One, NumDiv(radialDistance, NumMul(g.radius, MathMax(One, extensionFactor))))
\* Lines 234, 305: normalizedRadiusForThickness
NormalizedRadiusForThickness(g, radialDistance) ==
    MathMin(One, NumDiv(radialDistance, NumMul(g.radius, Rat(5, 4))))
\* Lines 231-232, 302-303: x and z around the height y.
PointAt(radialDistance, angle, y) ==
    <<NumMul(radialDistance, MathCos(angle)), y, NumMul(radialDistance, MathSin(angle))>>

\* Lines 243-262: the colour of a star point.
ArmLerpFactor(g, normalizedRadiusForColor) ==
    MathMin(One, NumDiv(MathMax(Zero, NumSub(normalizedRadiusForColor,
                                             NumMul(g.coreRatio, Rat(13, 10)))),
                        NumSub(One, NumMul(g.coreRatio, Rat(13, 10)))))
StarParticleColor(p, g, normalizedRadiusForColor) ==
    IF NumLt(normalizedRadiusForColor, NumMul(g.coreRatio, Rat(7, 10)))
    THEN lerpColors(g.centerBrightColor, g.armBaseColor,
                    MathPow(NumDiv(normalizedRadiusForColor,
                                   NumMul(g.coreRatio, Rat(7, 10))), Rat(1, 2)))
    ELSE IF NumLt(normalizedRadiusForColor, NumMul(g.coreRatio, Rat(13, 10)))
    THEN lerpColors(g.centerBrightColor, g.armBaseColor,
                    NumDiv(NumSub(normalizedRadiusForColor,
                                  NumMul(g.coreRatio, Rat(7, 10))),
                           NumMul(g.coreRatio, Rat(6, 10))))
    ELSE IF /\ RatLt(p.nebula, g.nebulaProbability)
            /\ NumLt(normalizedRadiusForColor, Rat(85, 100))
            /\ NumGt(normalizedRadiusForColor, NumMul(g.coreRatio, Rat(15, 10)))
    THEN offsetHSL(g.nebulaColor, Jitter(p.hueOffset, Rat(4, 100)),
                   Jitter(p.saturationOffset, Rat(15, 100)),
                   Jitter(p.lightnessOffset, Rat(1, 10)))
    ELSE offsetHSL(lerpColors(g.armBaseColor, g.armEdgeColor,
                              MathSqrt(ArmLerpFactor(g, normalizedRadiusForColor))),
                   Jitter(p.hueOffset, Rat(8, 100)),
                   Jitter(p.saturationOffset, Rat(2, 10)),
                   Jitter(p.lightnessOffset, Rat(1, 10)))
\* Lines 244 and 259: multiplyScalar(Math.random() * 0.4 + 0.6)
StarColor(p, g, normalizedRadiusForColor) ==
    multiplyScalar(StarParticleColor(p, g, normalizedRadiusForColor),
                   RatAdd(RatMul(p.brightness, Rat(4, 10)), Rat(6, 10)))

\* Lines 233-237: the height of a star point.
StarTaper(normalizedRadiusForThickness, y) ==
    IF NumGt(normalizedRadiusForThickness, Rat(7, 10))
    THEN NumMul(y, MathMax(Zero,
                           NumAdd(NumMul(NumSub(One,
                                                NumDiv(NumSub(normalizedRadiusForThickness,
                                                              Rat(7, 10)),
                                                       Rat(3, 10))),
                                         Rat(3, 10)),
                                  Rat(7, 10))))
    ELSE y
StarHeight(p, g, normalizedRadiusForThickness) ==
    StarTaper(normalizedRadiusForThickness,
              NumMul(NumMul(RatMul(RatMul(RatSub(p.y1, Rat(1, 2)), RatSub(p.y2, Rat(1, 2))),
                                   Rat(38, 10)),
                            g.thickness),
                     MathPow(NumSub(One, NumMul(normalizedRadiusForThickness, Rat(9, 10))),
                             Rat(13, 10))))

\* Lines 231-262, for the final radial distance and angle.
StarPlace(p, g, radialDistance, angle, normalizedRadiusForColor) ==
    [position |-> PointAt(radialDistance, angle,
                          StarHeight(p, g, NormalizedRadiusForThickness(g, radialDistance))),
     color |-> StarColor(p, g, normalizedRadiusForColor)]
\* Lines 226-229: the core region.
StarCore(p, g, radialDistance, angle, normalizedRadiusForColor) ==
    IF NumLt(radialDistance, NumMul(g.radius, g.coreRatio))
    THEN StarPlace(p, g,
                   IF RatLt(p.corePull, Rat(7, 10))
                   THEN NumMul(radialDistance,
                               NumMul(MathPow(p.corePullAmount, Rat(9, 5)), Rat(85, 100)))
                   ELSE radialDistance,
                   NumMul(p.coreAngle, TwoPi), normalizedRadiusForColor)
    ELSE StarPlace(p, g, radialDistance, angle, normalizedRadiusForColor)
\* Lines 217-224: the angle in the arm, with its wobble in the mid-arm region.
StarAngle(p, g, radialDistance, armChoice) ==
    NumAdd(NumAdd(NumAdd(BaseAngleForArm(g, armChoice),
                         NumMul(radialDistance, g.armTightness)),
                  NumMul(NumSub(MathPow(p.armOffset, Rat(11, 20)), Rat(1, 2)),
                         g.armAngularWidth)),
           IF /\ NumGt(radialDistance,
                       NumMul(NumMul(g.radius, g.coreRatio), Rat(12, 10)))
              /\ NumLt(radialDistance, NumMul(g.radius, Rat(9, 10)))
           THEN getArmWobble(p, g, radialDistance, g.radius, armChoice)
           ELSE Zero)
StarArm(p, g, radialDistance, extensionFactor) ==
    StarCore(p, g, radialDistance, StarAngle(p, g, radialDistance, ArmChoice(p, g)),
             NormalizedRadiusForColor(g, radialDistance, extensionFactor))
\* Lines 208-214: the radial distance and its extension past 0.7.
StarExtension(p) ==
    IF RatLt(Rat(7, 10), p.progress)
    THEN RatAdd(One, RatMul(RatSub(p.extension, Rat(4, 10)), Rat(7, 10)))
    ELSE One
StarRadial(p, g, extensionFactor) ==
    StarArm(p, g, NumMul(NumMul(MathPow(p.progress, Rat(8, 5)), g.radius), extensionFactor),
            extensionFactor)
\* Lines 208-262: the position and the colour of one star point.
StarPoint(p, g) == StarRadial(p, g, StarExtension(p))

\* Lines 315-323: the colour of a dust point.
DustParticleColor(p, g, normalizedRadiusForColor) ==
    offsetHSL(IF /\ RatLt(p.nebula, g.dustNebulaProbability)
                 /\ NumGt(normalizedRadiusForColor, NumMul(g.coreRatio, Rat(15, 10)))
              THEN g.dustNebulaColor
              ELSE g.dustColor,
              Zero, Jitter(p.saturationOffset, Rat(1, 10)),
              Jitter(p.lightnessOffset, Rat(5, 100)))
DustColor(p, g, normalizedRadiusForColor) ==
    multiplyScalar(DustParticleColor(p, g, normalizedRadiusForColor),
                   RatAdd(RatMul(p.brightness, Rat(2, 10)), Rat(1, 10)))

\* Lines 304-308: the height of a dust point.
DustTaper(normalizedRadiusForThickness, y) ==
    IF NumGt(normalizedRadiusForThickness, Rat(8, 10))
    THEN NumMul(y, MathMax(Rat(5, 100),
                           NumAdd(NumMul(NumSub(One,
                                                NumDiv(NumSub(normalizedRadiusForThickness,
                                                              Rat(8, 10)),
                                                       Rat(2, 10))),
                                         Rat(4, 10)),
                                  Rat(6, 10))))
    ELSE y
DustHeight(p, g, normalizedRadiusForThickness) ==
    DustTaper(normalizedRadiusForThickness,
              NumMul(NumMul(NumMul(NumMul(RatMul(RatMul(RatSub(p.y1, Rat(1, 2)),
                                                        RatSub(p.y2, Rat(1, 2))),
                                                 FromInt(3)),
                                          g.thickness),
                                   MathPow(NumSub(One, NumMul(normalizedRadiusForThickness,
                                                              Rat(85, 100))),
                                           Rat(12, 10))),
                            g.dustThicknessMultiplier),
                     Rat(7, 10)))

\* Lines 302-323, for the final radial distance and angle.
DustPlace(p, g, radialDistance, angle, normalizedRadiusForColor) ==
    [position |-> PointAt(radialDistance, angle,
                          DustHeight(p, g, NormalizedRadiusForThickness(g, radialDistance))),
     color |-> DustColor(p, g, normalizedRadiusForColor)]
\* Lines 297-300: dust in the core is pushed out, or its angle shifted.
DustCore(p, g, radialDistance, angle, normalizedRadiusForColor) ==
    IF NumLt(radialDistance, NumMul(NumMul(g.radius, g.coreRatio), Rat(18, 10)))
    THEN IF RatLt(p.corePull, Rat(1, 2))
         THEN DustPlace(p, g,
                        NumMul(radialDistance,
                               RatAdd(One, RatMul(p.corePullAmount, Rat(4, 10)))),
                        angle, normalizedRadiusForColor)
         ELSE DustPlace(p, g, radialDistance,
                        NumAdd(angle, Jitter(p.coreAngle, Rat(2, 10))),
                        normalizedRadiusForColor)
    ELSE DustPlace(p, g, radialDistance, angle, normalizedRadiusForColor)
\* Lines 288-296: the angle of a dust point, with its wobble.
DustAngle(p, g, radialDistance, armChoice) ==
    NumAdd(NumAdd(NumAdd(BaseAngleForArm(g, armChoice),
                         NumSub(NumMul(radialDistance,
                                       RatMul(g.armTightness,
                                              RatAdd(Rat(9, 10),
                                                     RatMul(p.spiral, Rat(2, 10))))),
                                Rat(5, 100))),
                  NumMul(RatMul(RatSub(p.armOffset, Rat(1, 2)), g.armAngularWidth),
                         Rat(7, 10))),
           IF /\ NumGt(radialDistance,
                       NumMul(NumMul(g.radius, g.coreRatio), Rat(15, 10)))
              /\ NumLt(radialDistance, NumMul(g.radius, Rat(85, 100)))
           THEN NumMul(getArmWobble(p, g, radialDistance, g.radius, armChoice),
                       Rat(8, 10))
           ELSE Zero)
DustArm(p, g, radialDistance, extensionFactor) ==
    DustCore(p, g, radialDistance, DustAngle(p, g, radialDistance, ArmChoice(p, g)),
             NormalizedRadiusForColor(g, radialDistance, extensionFactor))
\* Lines 278-284: the radial distance of a dust point.
DustExtension(p) ==
    IF RatLt(Rat(65, 100), p.progress)
    THEN RatAdd(One, RatMul(RatSub(p.extension, Rat(35, 100)), Rat(6, 10)))
    ELSE One
DustRadial(p, g, extensionFactor) ==
    DustArm(p, g,
            NumMul(NumAdd(NumMul(NumMul(MathPow(p.progress, Rat(13, 10)), g.radius),
                                 Rat(95, 100)),
                          NumMul(g.radius, Rat(5, 100))),
                   extensionFactor),
            extensionFactor)
\* Lines 278-323: the position and the colour of one dust point.
DustPoint(p, g) == DustRadial(p, g, DustExtension(p))

\* new Float32Array(length): length zeros.
Float32Array(length) == [k \in 1..length |-> Zero]
\* buffer[i * 3] = v[1]; buffer[i * 3 + 1] = v[2]; buffer[i * 3 + 2] = v[3], on
\* the indices from 0 of JavaScript: a store past the end is dropped.
StoreTriple(buffer, i, v) ==
    [k \in DOMAIN buffer |->
        IF k - 1 \in {i * 3, i * 3 + 1, i * 3 + 2} THEN v[k - i * 3] ELSE buffer[k]]
\* Lines 239-241 and 260-262, 311-313 and 325-327: the point is stored.
StorePoint(buffers, i, point) ==
    [positions |-> StoreTriple(buffers.positions, i, point.position),
     colors |-> StoreTriple(buffers.colors, i, point.color)]

\* The draws of point i of a loop: the loops of the model repeat draws.
DrawOf(draws, i) == draws[(i % Len(draws)) + 1]

\* Lines 207-263: the loop over the star points from i on.
RECURSIVE FillStars(_, _, _, _)
FillStars(buffers, i, draws, g) ==
    IF i < g.numStarPoints
    THEN FillStars(StorePoint(buffers, i, StarPoint(DrawOf(draws, i), g)), i + 1, draws, g)
    ELSE buffers
\* Lines 277-328: the loop over the dust points from i on.
RECURSIVE FillDust(_, _, _, _, _)
FillDust(buffers, i, numDustPoints, draws, g) ==
    IF i < numDustPoints
    THEN FillDust(StorePoint(buffers, i, DustPoint(DrawOf(draws, i), g)), i + 1,
                  numDustPoints, draws, g)
    ELSE buffers

\* Lines 205-206 and 275-276: the position and colour buffers of n points.
NewBuffers(n) == [positions |-> Float32Array(n * 3), colors |-> Float32Array(n * 3)]

\* The buffers createSingleGalaxyGroup fills for the parameters g: those of
\* the star cloud, and those of the dust cloud, or null (lines 205-263,
\* 271-328).
DustBuffers(numDustPoints, draws, g) ==
    IF numDustPoints > 0
    THEN FillDust(NewBuffers(numDustPoints), 0, numDustPoints, draws, g)
    ELSE Null
PointBuffers(d, g) ==
    [star |-> FillStars(NewBuffers(g.numStarPoints), 0, d.points, g),
     dust |-> DustBuffers(NumDustPoints(d.u.dustDivisor, g.numStarPoints), d.points, g)]

\* The names of the draws one new instance consumes.
DrawNames ==
    {"radius", "thickness", "numArms", "armTightness", "armAngularWidth", "coreRatio",
     "nebula", "numStarPoints", "dustNebula", "dustOpacity", "dustThickness",
     "wobbleAmplitude", "wobbleFrequency", "baseArmSpeed", "baseOrbitSpeed",
     "armBaseHue", "armSaturation", "armLightness", "centerHue", "centerSaturation",
     "centerLightness", "edgeHue", "edgeSaturation", "edgeLightness", "nebulaHue",
     "nebulaSaturation", "nebulaLightness", "dustHue", "dustSaturation",
     "dustLightness", "dustNebulaHue", "dustNebulaSaturation", "dustNebulaLightness",
     "dustDivisor", "r", "rotation", "scale"}

\* The draws of one new instance: every Math.random() call of its
\* construction returns v, and its direction is a.
InstanceDraw(v, a) == [u |-> [n \in DrawNames |-> v], angles |-> a]

\* Lines 273-289: the GalaxyInstance pushed for the parameters, the built
\* clouds and the placement r of draw d.  group.rotation is kept as its y
\* component, in radians added since creation (rotationY) on top of the
\* drawn orientation (rotationTurns, in full turns: rand(0, 2 pi) = 2 pi u).
GalaxyInstance(d, galaxyParams, built, r) ==
    [group |-> [position |-> SpherePoint(r, d.angles),
                rotationTurns |-> d.u.rotation,
                rotationY |-> Zero,
                scale |-> rand(d.u.scale, Rat(4, 10), Rat(12, 10))],
     baseArmSpeed |-> galaxyParams.baseArmSpeed,
     baseOrbitSpeed |-> galaxyParams.baseOrbitSpeed,
     starSystem |-> built.starSystem,
     dustSystem |-> built.dustSystem,
     disintegrationTriggerTime |-> Null,
     disintegrationDelay |-> Zero,
     isDisintegrating |-> FALSE,
     disintegrationAnimationStartTime |-> Null,
     disintegrationDuration |-> Zero,
     disintegrationTargetCamPos |-> Null,
     disintegrationInitialGroupPos |-> Null,
     disintegrationRandomScaleFactor |-> One,
     originalStarMaterialOpacity |-> built.originalStarMaterialOpacity,
     originalDustMaterialOpacity |-> built.originalDustMaterialOpacity]

\* A faulty variant of PlacementRadius: the range reaches the whole spread.
PlacementRadiusFull(u, currentGalaxySpreadValue) ==
    rand(u, RatMul(currentGalaxySpreadValue, Rat(5, 100)), currentGalaxySpreadValue)

\* Line 261: the distance of a new instance from the origin.
PlacementRadius(u, currentGalaxySpreadValue) ==
    rand(u, RatMul(currentGalaxySpreadValue, Rat(5, 100)),
         RatMul(currentGalaxySpreadValue, Rat(9, 10)))

\* Line 256: build the clouds of the parameters, then the instance.
BuildGalaxy(d, galaxyParams, currentGalaxySpreadValue) ==
    GalaxyInstance(d, galaxyParams, createSingleGalaxyGroup(d.u, galaxyParams),
                   PlacementRadius(d.u.r, currentGalaxySpreadValue))

\* Lines 255-289: one pass of the generation loop, for draw d.
NewGalaxyInstance(d, currentGalaxySpreadValue) ==
    BuildGalaxy(d, generateRandomGalaxyParameters(d.u, currentGalaxySpreadValue),
                currentGalaxySpreadValue)

\* -------------------------------------------------------------------- state
VARIABLES
    phase,                \* "initial" (rendered, effects pending), "mounted", "unmounted"
    props,                \* ThreeSceneProps, which are App's state
    galaxyOrbitSpeedMultiplierRefCurrent,
    armInternalSpeedMultiplierRefCurrent,
    galaxyInstancesRef,   \* the live collection: a sequence of instance identities
    backgroundStarsRef,   \* the identity of the background starfield, or Null
    animationFrameIdRef,  \* TRUE while a requested animation frame is pending
    sceneRef,             \* [children]: the scene with its direct children, or Null
    cameraRef,            \* [position, far], or Null
    controlsRef,          \* [maxDistance], or Null
    rendererRef,          \* [calls, drawn]: render calls made, children last drawn; or Null
    instances,            \* every GalaxyInstance ever built, by identity
    starfields,           \* every background starfield ever built, by identity
    disposeCount,         \* per point cloud, the calls of geometry/material dispose()
    clock,                \* performance.now()
    lastFrameTime,        \* the time of the last animation frame
    events,               \* user events so far
    galaxy                \* the galaxy utilities called on their own: [universeRadius,
                          \* params, built], or Null

vars ==
    <<phase, props, galaxyOrbitSpeedMultiplierRefCurrent,
      armInternalSpeedMultiplierRefCurrent, galaxyInstancesRef, backgroundStarsRef,
      animationFrameIdRef, sceneRef, cameraRef, controlsRef, rendererRef, instances,
      starfields, disposeCount, clock, lastFrameTime, events, galaxy>>

\* The variables of the scene.
sceneVars ==
    <<phase, props, galaxyOrbitSpeedMultiplierRefCurrent,
      armInternalSpeedMultiplierRefCurrent, galaxyInstancesRef, backgroundStarsRef,
      animationFrameIdRef, sceneRef, cameraRef, controlsRef, rendererRef, instances,
      starfields, disposeCount, clock, lastFrameTime, events>>

\* The objects the effects and the frame loop share, as one value, so that
\* the effects of one commit compose in the order React runs them.
World ==
    [scene |-> sceneRef, galaxyInstances |-> galaxyInstancesRef,
     backgroundStars |-> backgroundStarsRef, camera |-> cameraRef,
     controls |-> controlsRef, instances |-> instances, starfields |-> starfields,
     disposeCount |-> disposeCount]

SetWorld(w) ==
    /\ sceneRef' = w.scene
    /\ galaxyInstancesRef' = w.galaxyInstances
    /\ backgroundStarsRef' = w.backgroundStars
    /\ cameraRef' = w.camera
    /\ controlsRef' = w.controls
    /\ instances' = w.instances
    /\ starfields' = w.starfields
    /\ disposeCount' = w.disposeCount

\* The slider positions a user event selects.
Multipliers == {Rat(3, 100), Rat(1, 10)}
Spreads == {DefaultSpread, OtherSpread}
GalaxyCounts == 1..MaxGalaxies
\* Camera positions: the one set at mount, and one an orbit drag leads to.
InitialCameraSpread == 150
InitialCameraPosition ==
    Vec(Zero, RatMul(FromInt(InitialCameraSpread), Rat(3, 10)),
        RatMul(FromInt(InitialCameraSpread), Rat(12, 10)))
CameraPositions == {InitialCameraPosition, Vec(FromInt(180), FromInt(45), Zero)}

\* scene.remove(object): no effect when object is no child of the scene.
SceneRemove(scene, object) ==
    IF scene = Null THEN scene ELSE [scene EXCEPT !.children = @ \ {object}]
SceneAdd(scene, object) == [scene EXCEPT !.children = @ \cup {object}]

\* disposePoints(pointsObject, scene)
disposePoints(w, pointsObject) ==
    IF pointsObject # Null
    THEN [w EXCEPT !.disposeCount[pointsObject] = @ + 1,
                   !.scene = SceneRemove(@, pointsObject)]
    ELSE w

StarOf(i) == <<"star", i>>
DustOf(w, i) == IF w.instances[i].dustSystem = Null THEN Null ELSE <<"dust", i>>
GroupOf(i) == <<"group", i>>

\* if (instance.dustSystem) disposePoints(instance.dustSystem, scene)
DisposeDust(w, i) == disposePoints(w, DustOf(w, i))

\* A faulty variant of RemoveGroup: the group stays in the scene.
KeepGroup(w, i) == w

\* scene.remove(instance.group)
RemoveGroup(w, i) == [w EXCEPT !.scene = SceneRemove(@, GroupOf(i))]

\* The body the three disposal sites share: dispose the star cloud, the dust
\* cloud when there is one, and take the group out of the scene.
DisposeInstance(w, i) == RemoveGroup(DisposeDust(disposePoints(w, StarOf(i)), i), i)

RECURSIVE DisposeInstances(_, _)
DisposeInstances(w, list) ==
    IF list = <<>> THEN w
    ELSE DisposeInstances(DisposeInstance(w, Head(list)), Tail(list))

\* ------------------------------------------------------------------ effects
\* Lines 204-210: the camera's far plane and the controls' reach follow the
\* spread.
FitCamera(w, galaxySpread) ==
    [w EXCEPT
       !.camera = IF @ = Null THEN @
                  ELSE [@ EXCEPT !.far = RatMul(galaxySpread, FromInt(10))],
       !.controls = IF @ = Null THEN @
                    ELSE [@ EXCEPT !.maxDistance = RatMul(galaxySpread, FromInt(4))]]

\* Lines 212-213: the current starfield is disposed and forgotten.
DropStarfield(w) ==
    [disposePoints(w, w.backgroundStars) EXCEPT !.backgroundStars = Null]

\* Lines 215-237: a starfield of radius bgRadius is built, referenced and
\* added to the scene.
AddStarfield(w, bgRadius) ==
    [w EXCEPT !.starfields = Append(@, [bgRadius |-> bgRadius]),
              !.disposeCount = @ @@ (<<"bg", Len(w.starfields) + 1>> :> 0),
              !.backgroundStars = <<"bg", Len(w.starfields) + 1>>,
              !.scene = SceneAdd(@, <<"bg", Len(w.starfields) + 1>>)]

\* A faulty variant of BackgroundRadius: the factor of the controls' reach.
BackgroundRadiusOfControls(galaxySpread) == RatMul(galaxySpread, FromInt(4))

\* Line 218: the radius of the starfield shell.
BackgroundRadius(galaxySpread) == RatMul(galaxySpread, FromInt(5))

\* The background starfield effect, deps [galaxySpread, disposePoints].
BackgroundStarfieldEffect(w, galaxySpread) ==
    IF w.scene = Null THEN w
    ELSE AddStarfield(DropStarfield(FitCamera(w, galaxySpread)),
                      BackgroundRadius(galaxySpread))

\* Lines 257-289: the group of a built instance is added to the scene and the
\* instance is pushed.
PushInstance(w, g) ==
    [w EXCEPT !.instances = Append(@, g),
              !.disposeCount = @ @@ (<<"star", Len(w.instances) + 1>> :> 0)
                                 @@ (<<"dust", Len(w.instances) + 1>> :> 0),
              !.scene = SceneAdd(@, GroupOf(Len(w.instances) + 1)),
              !.galaxyInstances = Append(@, Len(w.instances) + 1)]

RECURSIVE PushGalaxies(_, _, _)
PushGalaxies(w, draws, currentGalaxySpreadValue) ==
    IF draws = <<>> THEN w
    ELSE PushGalaxies(PushInstance(w, NewGalaxyInstance(Head(draws), currentGalaxySpreadValue)),
                      Tail(draws), currentGalaxySpreadValue)

\* A faulty variant of ClearGalaxies: the collection is emptied and its
\* instances are not disposed.
ClearWithoutRelease(w) == [w EXCEPT !.galaxyInstances = <<>>]

\* A faulty variant of ClearGalaxies: the instances are disposed and the
\* collection is not emptied.
DisposeWithoutClear(w) == DisposeInstances(w, w.galaxyInstances)

\* Lines 247-252: every instance of the collection is disposed and the
\* collection is emptied.
ClearGalaxies(w) ==
    [DisposeInstances(w, w.galaxyInstances) EXCEPT !.galaxyInstances = <<>>]

\* The galaxy generation effect, deps [numGalaxies, regenerationKey,
\* disposePoints, props.galaxySpread]; draws holds one draw per new instance.
GalaxyGenerationEffect(w, draws, galaxySpread) ==
    IF w.scene = Null THEN w
    ELSE PushGalaxies(ClearGalaxies(w), draws, galaxySpread)

\* A faulty variant of PrimeInstance: an instance that disintegrates already
\* is left alone.
PrimeInstanceUnlessStarted(g, triggerTime, u) ==
    IF g.isDisintegrating THEN g
    ELSE [g EXCEPT !.disintegrationTriggerTime = triggerTime,
                   !.disintegrationDelay = rand(u, Zero, FromInt(DelayMaxMs)),
                   !.isDisintegrating = FALSE,
                   !.disintegrationAnimationStartTime = Null]

\* A faulty variant of PrimeInstance: the clouds are put back to their
\* original opacity and scale when the instance is primed.
PrimeInstanceAndReset(g, triggerTime, u) ==
    [g EXCEPT !.disintegrationTriggerTime = triggerTime,
              !.disintegrationDelay = rand(u, Zero, FromInt(DelayMaxMs)),
              !.isDisintegrating = FALSE,
              !.disintegrationAnimationStartTime = Null,
              !.starSystem = [@ EXCEPT !.opacity = g.originalStarMaterialOpacity,
                                       !.scale = One]]

\* The body of the trigger effect's forEach, for the delay draw u.
PrimeInstance(g, triggerTime, u) ==
    [g EXCEPT !.disintegrationTriggerTime = triggerTime,
              !.disintegrationDelay = rand(u, Zero, FromInt(DelayMaxMs)),
              !.isDisintegrating = FALSE,
              !.disintegrationAnimationStartTime = Null]

\* The members of a sequence.
Range(list) == {list[k] : k \in DOMAIN list}

\* The place of instance i in the collection.
PlaceOf(list, i) == CHOOSE k \in DOMAIN list : list[k] = i

\* The disintegration trigger effect, deps [disintegrationTriggerKey];
\* draws[k] is the delay draw of the k-th instance of the collection.
DisintegrationTriggerEffect(w, disintegrationTriggerKey, now, draws) ==
    IF disintegrationTriggerKey = 0 THEN w
    ELSE [w EXCEPT !.instances =
            [i \in DOMAIN @ |->
                IF i \in Range(w.galaxyInstances)
                THEN PrimeInstance(@[i], FromInt(now), draws[PlaceOf(w.galaxyInstances, i)])
                ELSE @[i]]]

\* --------------------------------------------------------------- frame loop
\* The draws one instance consumes in one frame; the instances of one frame
\* draw alike.  The jitter of the dust rotation is drawn at the middle of its
\* range: no branch reads the rotation.
JitterDraw == Rat(1, 2)
FrameDraws ==
    {[jitter |-> JitterDraw, duration |-> u, scaleFactor |-> u] : u \in RandomUnit}

\* The three rotation.y += of lines 123-127, for the increments orbit and arm
\* and the jitter factor of the dust.
RotateBy(g, orbit, arm, jitter) ==
    [g EXCEPT !.group.rotationY = RatAdd(@, orbit),
              !.starSystem.rotationY = RatAdd(@, arm),
              !.dustSystem = IF @ = Null THEN @
                             ELSE [@ EXCEPT !.rotationY = RatAdd(@, RatMul(arm, jitter))]]

\* base speed * multiplier * 100
RotationStep(baseSpeed, multiplier) ==
    RatMul(RatMul(baseSpeed, multiplier), FromInt(RotationFactor))

\* Lines 123-127: the rotation step.
Rotate(g, orbitMultiplier, armMultiplier, d) ==
    RotateBy(g, RotationStep(g.baseOrbitSpeed, orbitMultiplier),
             RotationStep(g.baseArmSpeed, armMultiplier),
             rand(d.jitter, Rat(9, 10), Rat(11, 10)))

\* A faulty variant of DelayExpired: now > triggerTime + delay.
DelayExpiredStrict(g, now) ==
    RatLt(RatAdd(g.disintegrationTriggerTime, g.disintegrationDelay), FromInt(now))

\* A faulty variant of DelayExpired: the delay is not waited for.
DelayIgnored(g, now) == TRUE

\* Line 130: the delay of a primed instance has expired.
DelayExpired(g, now) ==
    RatLeq(RatAdd(g.disintegrationTriggerTime, g.disintegrationDelay), FromInt(now))

\* A faulty variant of StartDisintegration: the target is not the camera
\* position but the point the code falls back to without a camera.
StartDisintegrationWithoutCamera(g, now, camera, d) ==
    IF g.disintegrationTriggerTime # Null /\ ~g.isDisintegrating /\ DelayExpired(g, now)
    THEN [g EXCEPT
            !.isDisintegrating = TRUE,
            !.disintegrationAnimationStartTime = FromInt(now),
            !.disintegrationTargetCamPos =
                Vec(Zero, Zero, RatAdd(g.group.position[3], FromInt(50))),
            !.disintegrationInitialGroupPos = g.group.position,
            !.disintegrationDuration = rand(d.duration, FromInt(2), Rat(45, 10)),
            !.disintegrationRandomScaleFactor = rand(d.scaleFactor, Rat(25, 10), FromInt(7)),
            !.starSystem = [@ EXCEPT !.opacity = g.originalStarMaterialOpacity,
                                     !.scale = One],
            !.dustSystem =
                IF @ # Null /\ g.originalDustMaterialOpacity # Null
                THEN [@ EXCEPT !.opacity = g.originalDustMaterialOpacity, !.scale = One]
                ELSE @]
    ELSE g

\* A faulty variant of StartDisintegration: an instance that has
\* disintegrated before keeps the initial position it recorded then.
StartDisintegrationFromFirstPosition(g, now, camera, d) ==
    IF g.disintegrationTriggerTime # Null /\ ~g.isDisintegrating /\ DelayExpired(g, now)
    THEN [g EXCEPT
            !.isDisintegrating = TRUE,
            !.disintegrationAnimationStartTime = FromInt(now),
            !.disintegrationTargetCamPos =
                IF camera # Null THEN camera.position
                ELSE Vec(Zero, Zero, RatAdd(g.group.position[3], FromInt(50))),
            !.disintegrationInitialGroupPos = IF @ = Null THEN g.group.position ELSE @,
            !.disintegrationDuration = rand(d.duration, FromInt(2), Rat(45, 10)),
            !.disintegrationRandomScaleFactor = rand(d.scaleFactor, Rat(25, 10), FromInt(7)),
            !.starSystem = [@ EXCEPT !.opacity = g.originalStarMaterialOpacity,
                                     !.scale = One],
            !.dustSystem =
                IF @ # Null /\ g.originalDustMaterialOpacity # Null
                THEN [@ EXCEPT !.opacity = g.originalDustMaterialOpacity, !.scale = One]
                ELSE @]
    ELSE g

\* Lines 129-149: a primed instance whose delay has expired starts to
\* disintegrate.
StartDisintegration(g, now, camera, d) ==
    IF g.disintegrationTriggerTime # Null /\ ~g.isDisintegrating /\ DelayExpired(g, now)
    THEN [g EXCEPT
            !.isDisintegrating = TRUE,
            !.disintegrationAnimationStartTime = FromInt(now),
            !.disintegrationTargetCamPos =
                IF camera # Null THEN camera.position
                ELSE Vec(Zero, Zero, RatAdd(g.group.position[3], FromInt(50))),
            !.disintegrationInitialGroupPos = g.group.position,
            !.disintegrationDuration = rand(d.duration, FromInt(2), Rat(45, 10)),
            !.disintegrationRandomScaleFactor = rand(d.scaleFactor, Rat(25, 10), FromInt(7)),
            !.starSystem = [@ EXCEPT !.opacity = g.originalStarMaterialOpacity,
                                     !.scale = One],
            !.dustSystem =
                IF @ # Null /\ g.originalDustMaterialOpacity # Null
                THEN [@ EXCEPT !.opacity = g.originalDustMaterialOpacity, !.scale = One]
                ELSE @]
    ELSE g

\* A faulty variant of ElapsedTime: the milliseconds are not converted.
ElapsedTimeMs(g, now) == RatSub(FromInt(now), g.disintegrationAnimationStartTime)

\* Line 152: the seconds since the animation started.
ElapsedTime(g, now) ==
    RatDiv(RatSub(FromInt(now), g.disintegrationAnimationStartTime), FromInt(MsPerSecond))

\* Lines 152-153: the progress of a disintegrating instance at time now.
Progress(g, now) == RatMin(One, RatDiv(ElapsedTime(g, now), g.disintegrationDuration))

\* Line 151: the instance is being animated.
Animating(g) == g.isDisintegrating /\ g.disintegrationAnimationStartTime # Null

\* A faulty variant of Complete: progress > 1, which Math.min(1, ...) never
\* lets happen.
CompleteStrict(g, now) == Animating(g) /\ RatLt(One, Progress(g, now))

\* A faulty variant of Complete: the animation is taken for complete at half
\* its duration.
CompleteAtHalf(g, now) == Animating(g) /\ RatLeq(Rat(1, 2), Progress(g, now))

\* Line 155: the animation is complete.
Complete(g, now) == Animating(g) /\ RatLeq(One, Progress(g, now))

\* Lines 161-177: position, scale and opacity for the progress, its fade
\* factor 1 - progress^2 and its scale 1 + progress * factor.
ApplyProgress(g, progress, fade, scaleProgress) ==
    [g EXCEPT
       !.group.position =
           IF g.disintegrationInitialGroupPos # Null /\ g.disintegrationTargetCamPos # Null
           THEN LerpVectors(g.disintegrationInitialGroupPos,
                            g.disintegrationTargetCamPos, progress)
           ELSE @,
       !.starSystem = [@ EXCEPT !.scale = scaleProgress,
                                !.opacity = RatMul(g.originalStarMaterialOpacity, fade)],
       !.dustSystem =
           IF @ = Null THEN @
           ELSE [@ EXCEPT !.scale = scaleProgress,
                          !.opacity = IF g.originalDustMaterialOpacity # Null
                                      THEN RatMul(g.originalDustMaterialOpacity, fade)
                                      ELSE @]]

\* A faulty variant of Fade: the fade is linear in the progress.
FadeLinear(progress) == RatSub(One, progress)

\* Line 174: 1 - progress * progress
Fade(progress) == RatSub(One, RatMul(progress, progress))

\* A faulty variant of ScaleProgress: the scale grows from 0, not from 1.
ScaleProgressFromZero(g, progress) == RatMul(progress, g.disintegrationRandomScaleFactor)

\* Line 168: 1 + progress * disintegrationRandomScaleFactor
ScaleProgress(g, progress) ==
    RatAdd(One, RatMul(progress, g.disintegrationRandomScaleFactor))

AnimateAt(g, progress) ==
    ApplyProgress(g, progress, Fade(progress), ScaleProgress(g, progress))

\* Lines 160-178: the animation step of an instance that is not complete.
AnimateDisintegration(g, now) == AnimateAt(g, Progress(g, now))

\* instances[i] := g
Store(w, i, g) == [w EXCEPT !.instances[i] = g]

\* A faulty variant of Settle: a complete instance is dropped from the
\* collection and nothing of it is released.
SettleWithoutRelease(f, i, now, g) ==
    IF Complete(g, now)
    THEN [w |-> Store(f.w, i, g), stillActiveGalaxies |-> f.stillActiveGalaxies]
    ELSE [w |-> Store(f.w, i, IF Animating(g) THEN AnimateDisintegration(g, now) ELSE g),
          stillActiveGalaxies |-> Append(f.stillActiveGalaxies, i)]

\* A faulty variant of Settle: a complete instance is disposed as the tick
\* found it, the rotation step of its final tick is lost.
SettleUnrotated(f, i, now, g) ==
    IF Complete(g, now)
    THEN [w |-> DisposeInstance(f.w, i),
          stillActiveGalaxies |-> f.stillActiveGalaxies]
    ELSE [w |-> Store(f.w, i, IF Animating(g) THEN AnimateDisintegration(g, now) ELSE g),
          stillActiveGalaxies |-> Append(f.stillActiveGalaxies, i)]

\* Lines 151-183, for the instance g as rotation and the start of
\* disintegration left it: a complete instance is disposed and dropped,
\* another is animated when it disintegrates, and kept.
\* f is [w, stillActiveGalaxies]: the world and the kept instances so far.
Settle(f, i, now, g) ==
    IF Complete(g, now)
    THEN [w |-> DisposeInstance(Store(f.w, i, g), i),
          stillActiveGalaxies |-> f.stillActiveGalaxies]
    ELSE [w |-> Store(f.w, i, IF Animating(g) THEN AnimateDisintegration(g, now) ELSE g),
          stillActiveGalaxies |-> Append(f.stillActiveGalaxies, i)]

\* Lines 120-184: the body of animate's forEach for instance i with draws d.
AnimateInstance(f, i, now, orbitMultiplier, armMultiplier, d) ==
    Settle(f, i, now,
           StartDisintegration(Rotate(f.w.instances[i], orbitMultiplier, armMultiplier, d),
                               now, f.w.camera, d))

RECURSIVE AnimateInstances(_, _, _, _, _, _)
AnimateInstances(f, list, now, orbitMultiplier, armMultiplier, draws) ==
    IF list = <<>> THEN f
    ELSE AnimateInstances(
             AnimateInstance(f, Head(list), now, orbitMultiplier, armMultiplier, Head(draws)),
             Tail(list), now, orbitMultiplier, armMultiplier, Tail(draws))

\* A faulty variant of Compact: the collection is not replaced.
CompactKeepAll(f) == f.w

\* A faulty variant of Compact: the kept instances are added to the
\* collection, which is not replaced.
CompactAppend(f) == [f.w EXCEPT !.galaxyInstances = @ \o f.stillActiveGalaxies]

\* Line 185: the collection is replaced by the kept instances.
Compact(f) == [f.w EXCEPT !.galaxyInstances = f.stillActiveGalaxies]

\* Lines 117-185 of animate: every instance of the collection is updated,
\* then the collection is replaced.
AnimateWorld(w, now, orbitMultiplier, armMultiplier, draws) ==
    Compact(AnimateInstances([w |-> w, stillActiveGalaxies |-> <<>>], w.galaxyInstances,
                             now, orbitMultiplier, armMultiplier, draws))

\* Lines 188-190: one render call, when scene, camera and renderer exist.
Render(renderer, w) ==
    IF w.scene # Null /\ w.camera # Null /\ renderer # Null
    THEN [calls |-> renderer.calls + 1, drawn |-> w.scene.children]
    ELSE renderer

\* ------------------------------------------------------------------ actions
\* The component after its first render: the refs hold their initial values
\* and App's state its defaults; the effects have not run yet.
Init ==
    /\ phase = "initial"
    /\ props \in [galaxyOrbitSpeedMultiplier : {Rat(3, 100)},
                  armInternalSpeedMultiplier : {Rat(3, 100)},
                  galaxySpread : {DefaultSpread},
                  numGalaxies : {MaxGalaxies},
                  regenerationKey : {0},
                  disintegrationTriggerKey : {0}]
    /\ galaxyOrbitSpeedMultiplierRefCurrent = Rat(3, 100)
    /\ armInternalSpeedMultiplierRefCurrent = Rat(3, 100)
    /\ galaxyInstancesRef = <<>>
    /\ backgroundStarsRef = Null
    /\ animationFrameIdRef = FALSE
    /\ sceneRef = Null
    /\ cameraRef = Null
    /\ controlsRef = Null
    /\ rendererRef = Null
    /\ instances = <<>>
    /\ starfields = <<>>
    /\ disposeCount = <<>>
    /\ clock = 0
    /\ lastFrameTime = 0
    /\ events = 0
    /\ galaxy = Null

\* The draws of a generation pass that builds n instances: consecutive
\* instances draw differently.
InstanceDrawSeq == <<InstanceDraw(Zero, <<2, 0>>), InstanceDraw(Rat(9, 10), <<1, 1>>)>>
GenerationDraws(n) ==
    {[k \in 1..n |-> InstanceDrawSeq[((k + first) % 2) + 1]] : first \in 0..1}

\* A generation pass of n instances stays within the identities of the model.
MayGenerate(n) == Len(instances) + n <= MaxCreated

\* A faulty variant of Animate: the scene is rendered before the collection
\* is updated and compacted.
AnimateRenderFirst(draws) ==
    LET w == AnimateWorld(World, clock, galaxyOrbitSpeedMultiplierRefCurrent,
                          armInternalSpeedMultiplierRefCurrent, draws)
    IN  /\ animationFrameIdRef' = TRUE
        /\ SetWorld(w)
        /\ rendererRef' = Render(rendererRef, World)
        /\ lastFrameTime' = clock

\* animate, lines 115-191: request the next frame, update and compact the
\* collection, render.
Animate(draws) ==
    LET w == AnimateWorld(World, clock, galaxyOrbitSpeedMultiplierRefCurrent,
                          armInternalSpeedMultiplierRefCurrent, draws)
    IN  /\ animationFrameIdRef' = TRUE
        /\ SetWorld(w)
        /\ rendererRef' = Render(rendererRef, w)
        /\ lastFrameTime' = clock

\* The first commit: every effect runs, in the order of its declaration.
\* The setup effect (lines 81-198) builds scene, camera, renderer and
\* controls and calls animate() once, on the empty collection; then the
\* starfield and the generation effect run; the trigger effect returns at
\* key 0.
Mount ==
    /\ phase = "initial"
    /\ MayGenerate(props.numGalaxies)
    /\ \E draws \in GenerationDraws(props.numGalaxies) :
        LET w0 == [World EXCEPT
                     !.scene = [children |-> {}],
                     !.camera = [position |-> InitialCameraPosition,
                                 far |-> FromInt(InitialCameraSpread * 10)],
                     !.controls = [maxDistance |-> FromInt(InitialCameraSpread * 4)]]
            r0 == [calls |-> 0, drawn |-> {}]
            w1 == AnimateWorld(w0, clock, galaxyOrbitSpeedMultiplierRefCurrent,
                               armInternalSpeedMultiplierRefCurrent, <<>>)
            w2 == BackgroundStarfieldEffect(w1, FromInt(props.galaxySpread))
            w3 == GalaxyGenerationEffect(w2, draws, FromInt(props.galaxySpread))
            w4 == DisintegrationTriggerEffect(w3, props.disintegrationTriggerKey, clock, <<>>)
        IN  /\ SetWorld(w4)
            /\ rendererRef' = Render(r0, w1)
            /\ animationFrameIdRef' = TRUE
            /\ lastFrameTime' = clock
    /\ phase' = "mounted"
    /\ UNCHANGED <<props, galaxyOrbitSpeedMultiplierRefCurrent,
                   armInternalSpeedMultiplierRefCurrent, clock, events, galaxy>>

\* A disintegration is pending: an instance of the collection is primed or
\* disintegrating.
Pending ==
    \E i \in {galaxyInstancesRef[k] : k \in DOMAIN galaxyInstancesRef} :
        instances[i].disintegrationTriggerTime # Null

\* The run is followed to LastEventTime, and to MaxTime while a
\* disintegration is pending.
Horizon == IF Pending THEN MaxTime ELSE LastEventTime

\* A frame is due: FramePeriod has passed since the last one.
FrameDue == clock >= lastFrameTime + FramePeriod

\* Time passes, while the component is mounted and after it is unmounted,
\* up to the time the next requested frame is due.
Elapse ==
    /\ phase # "initial"
    /\ clock + Quantum <= Horizon
    /\ ~(animationFrameIdRef /\ FrameDue)
    /\ clock' = clock + Quantum
    /\ UNCHANGED <<phase, props, galaxyOrbitSpeedMultiplierRefCurrent,
                   armInternalSpeedMultiplierRefCurrent, galaxyInstancesRef,
                   backgroundStarsRef, animationFrameIdRef, sceneRef, cameraRef,
                   controlsRef, rendererRef, instances, starfields, disposeCount,
                   lastFrameTime, events, galaxy>>

\* The browser runs the animation frame that is requested and not cancelled.
Tick ==
    /\ animationFrameIdRef
    /\ FrameDue
    /\ \E d \in FrameDraws : Animate([k \in 1..Len(galaxyInstancesRef) |-> d])
    /\ UNCHANGED <<phase, props, galaxyOrbitSpeedMultiplierRefCurrent,
                   armInternalSpeedMultiplierRefCurrent, clock, events, galaxy>>

UserEvent ==
    /\ phase = "mounted"
    /\ events < MaxEvents
    /\ clock <= LastEventTime
    /\ events' = events + 1
    /\ UNCHANGED <<phase, clock, lastFrameTime, animationFrameIdRef, rendererRef, galaxy>>

\* A faulty variant of OrbitSpeedRefEffect: the ref keeps the value it has.
KeepOrbitSpeedRef(galaxyOrbitSpeedMultiplier) == galaxyOrbitSpeedMultiplierRefCurrent

\* The orbit speed slider (App.tsx line 37) and the effect of lines 50-52.
OrbitSpeedRefEffect(galaxyOrbitSpeedMultiplier) == galaxyOrbitSpeedMultiplier

SetGalaxyOrbitSpeedMultiplier ==
    /\ UserEvent
    /\ \E v \in Multipliers \ {props.galaxyOrbitSpeedMultiplier} :
        /\ props' = [props EXCEPT !.galaxyOrbitSpeedMultiplier = v]
        /\ galaxyOrbitSpeedMultiplierRefCurrent' = OrbitSpeedRefEffect(v)
    /\ UNCHANGED <<armInternalSpeedMultiplierRefCurrent, galaxyInstancesRef,
                   backgroundStarsRef, sceneRef, cameraRef, controlsRef, instances,
                   starfields, disposeCount>>

\* The arm speed slider (App.tsx line 52) and the effect of lines 54-56.
ArmSpeedRefEffect(armInternalSpeedMultiplier) == armInternalSpeedMultiplier

SetArmInternalSpeedMultiplier ==
    /\ UserEvent
    /\ \E v \in Multipliers \ {props.armInternalSpeedMultiplier} :
        /\ props' = [props EXCEPT !.armInternalSpeedMultiplier = v]
        /\ armInternalSpeedMultiplierRefCurrent' = ArmSpeedRefEffect(v)
    /\ UNCHANGED <<galaxyOrbitSpeedMultiplierRefCurrent, galaxyInstancesRef,
                   backgroundStarsRef, sceneRef, cameraRef, controlsRef, instances,
                   starfields, disposeCount>>

\* The effects a change of galaxySpread re-runs, in order: the starfield
\* effect, then the generation effect.
SpreadEffects(w, draws, galaxySpread) ==
    GalaxyGenerationEffect(BackgroundStarfieldEffect(w, galaxySpread), draws, galaxySpread)

\* The spread slider (App.tsx line 67).
SetGalaxySpread ==
    /\ UserEvent
    /\ MayGenerate(props.numGalaxies)
    /\ \E s \in Spreads \ {props.galaxySpread} :
       \E draws \in GenerationDraws(props.numGalaxies) :
        /\ props' = [props EXCEPT !.galaxySpread = s]
        /\ SetWorld(SpreadEffects(World, draws, FromInt(s)))
    /\ UNCHANGED <<galaxyOrbitSpeedMultiplierRefCurrent,
                   armInternalSpeedMultiplierRefCurrent>>

\* A faulty variant of RegenerationEffects: regenerationKey among the deps of
\* the starfield effect.
RegenerationWithStarfield(w, draws, galaxySpread) ==
    GalaxyGenerationEffect(BackgroundStarfieldEffect(w, galaxySpread), draws, galaxySpread)

\* The effects a change of numGalaxies or of regenerationKey re-runs: the
\* generation effect alone.
RegenerationEffects(w, draws, galaxySpread) ==
    GalaxyGenerationEffect(w, draws, galaxySpread)

\* The galaxy count slider (App.tsx lines 82-84).
SetNumGalaxies ==
    /\ UserEvent
    /\ \E n \in GalaxyCounts \ {props.numGalaxies} :
       /\ MayGenerate(n)
       /\ \E draws \in GenerationDraws(n) :
            /\ props' = [props EXCEPT !.numGalaxies = n]
            /\ SetWorld(RegenerationEffects(World, draws, FromInt(props.galaxySpread)))
    /\ UNCHANGED <<galaxyOrbitSpeedMultiplierRefCurrent,
                   armInternalSpeedMultiplierRefCurrent>>

\* The Re-generate button: handleRegenerate (App.tsx lines 13-15).
handleRegenerate ==
    /\ UserEvent
    /\ MayGenerate(props.numGalaxies)
    /\ \E draws \in GenerationDraws(props.numGalaxies) :
        /\ props' = [props EXCEPT !.regenerationKey = @ + 1]
        /\ SetWorld(RegenerationEffects(World, draws, FromInt(props.galaxySpread)))
    /\ UNCHANGED <<galaxyOrbitSpeedMultiplierRefCurrent,
                   armInternalSpeedMultiplierRefCurrent>>

\* The Disintegrate button: handleDisintegrate (App.tsx lines 17-19).
handleDisintegrate ==
    /\ UserEvent
    /\ \E draws \in [1..Len(galaxyInstancesRef) -> RandomUnit] :
        /\ props' = [props EXCEPT !.disintegrationTriggerKey = @ + 1]
        /\ SetWorld(DisintegrationTriggerEffect(World, props.disintegrationTriggerKey + 1,
                                                clock, draws))
    /\ UNCHANGED <<galaxyOrbitSpeedMultiplierRefCurrent,
                   armInternalSpeedMultiplierRefCurrent>>

\* An orbit drag: OrbitControls moves the camera.
MoveCamera ==
    /\ UserEvent
    /\ \E p \in CameraPositions \ {cameraRef.position} :
        cameraRef' = [cameraRef EXCEPT !.position = p]
    /\ UNCHANGED <<props, galaxyOrbitSpeedMultiplierRefCurrent,
                   armInternalSpeedMultiplierRefCurrent, galaxyInstancesRef,
                   backgroundStarsRef, sceneRef, controlsRef, instances, starfields,
                   disposeCount>>

\* A faulty variant of CleanupWorld: the starfield is left as it is.
CleanupGalaxiesOnly(w) ==
    IF w.scene # Null THEN ClearGalaxies(w) ELSE w

\* Lines 310-319 of the final cleanup: every instance of the collection and
\* the starfield are disposed.
CleanupWorld(w) ==
    IF w.scene # Null THEN DropStarfield(ClearGalaxies(w)) ELSE w

\* A faulty variant of CancelFrame: the requested frame is left pending.
KeepFrame(animationFrameId) == animationFrameId

\* Lines 195 and 307: if (animationFrameIdRef.current)
\* cancelAnimationFrame(animationFrameIdRef.current); no frame is pending
\* afterwards.
CancelFrame(animationFrameId) == IF animationFrameId THEN FALSE ELSE animationFrameId

\* The component unmounts: the cleanups of lines 194-197 and 306-333 run.
Unmount ==
    /\ phase = "mounted"
    /\ events < MaxEvents
    /\ clock <= LastEventTime
    /\ events' = events + 1
    /\ phase' = "unmounted"
    /\ animationFrameIdRef' = CancelFrame(animationFrameIdRef)
    /\ SetWorld([CleanupWorld(World) EXCEPT !.scene = Null, !.camera = Null,
                                            !.controls = Null])
    /\ rendererRef' = Null
    /\ UNCHANGED <<props, galaxyOrbitSpeedMultiplierRefCurrent,
                   armInternalSpeedMultiplierRefCurrent, clock, lastFrameTime, galaxy>>

Next ==
    \/ Mount
    \/ Elapse
    \/ Tick
    \/ SetGalaxyOrbitSpeedMultiplier
    \/ SetArmInternalSpeedMultiplier
    \/ SetGalaxySpread
    \/ SetNumGalaxies
    \/ handleRegenerate
    \/ handleDisintegrate
    \/ MoveCamera
    \/ Unmount

Spec == Init /\ [][Next]_vars

\* ------------------------------------------------- disposePoints, called again
\* disposePoints (lines 58-68) is called for a point cloud that has been
\* released: the call a caller makes that holds on to a disposed instance.
ReleaseRequest ==
    /\ UserEvent
    /\ \E pointsObject \in {o \in DOMAIN disposeCount : disposeCount[o] > 0} :
        SetWorld(disposePoints(World, pointsObject))
    /\ UNCHANGED <<props, galaxyOrbitSpeedMultiplierRefCurrent,
                   armInternalSpeedMultiplierRefCurrent>>

\* The scene with its regenerations, triggers and frames, and release
\* requests for released clouds.
NextRelease ==
    \/ Mount
    \/ Elapse
    \/ Tick
    \/ handleRegenerate
    \/ handleDisintegrate
    \/ ReleaseRequest

SpecRelease == Init /\ [][NextRelease]_vars

\* ------------------------------------------- the galaxy utilities, on their own
\* Draws of Math.random() for the utilities: the least value, the middle and
\* one close to the upper end, which is never reached.
UtilityUnit == {Zero, Rat(1, 2), Rat(99, 100)}

\* Universe radii: the degenerate 0, and the ends of the spread slider
\* (App.tsx lines 63-67).
UniverseRadii == {0, 50, 300}

\* The draws that make up the colours, and their values.
ColourDrawNames ==
    {"armBaseHue", "armSaturation", "armLightness", "centerHue", "centerSaturation",
     "centerLightness", "edgeHue", "edgeSaturation", "edgeLightness", "nebulaHue",
     "nebulaSaturation", "nebulaLightness", "dustHue", "dustSaturation",
     "dustLightness", "dustNebulaHue", "dustNebulaSaturation", "dustNebulaLightness"}
ColourUnit == {Zero, Rat(1, 2), Rat(9, 10)}

\* The draws of one call of generateRandomGalaxyParameters: the draws of
\* radius and counts return v, those of the colours c, the others w.
ParameterDraws ==
    {[n \in DrawNames |->
         IF n \in {"radius", "numArms", "numStarPoints"} THEN v
         ELSE IF n \in ColourDrawNames THEN c ELSE w] :
        v \in UtilityUnit, w \in UtilityUnit, c \in ColourUnit}

\* generateRandomGalaxyParameters(universeRadius) is called.
GenerateParameters ==
    /\ phase = "initial"
    /\ galaxy = Null
    /\ \E universeRadius \in UniverseRadii, d \in ParameterDraws :
        galaxy' = [universeRadius |-> universeRadius,
                   params |-> generateRandomGalaxyParameters(d, FromInt(universeRadius)),
                   built |-> Null]
    /\ UNCHANGED sceneVars

\* Star point counts a caller passes: none, too few for dust, and counts
\* for which the dust count depends on the divisor drawn.
PointCounts == {0, 2, 3, 6}

\* The draws of one point: the nebula draw returns w, every other draw v.
PointDraw(v, w) == [n \in PointDrawNames |-> IF n = "nebula" THEN w ELSE v]
\* The draws of the points of one build, which its loops repeat.
PointPatterns ==
    {<<PointDraw(Zero, Zero), PointDraw(Rat(1, 2), Zero)>>,
     <<PointDraw(Rat(1, 5), Rat(1, 2)), PointDraw(Rat(9, 10), Rat(9, 10))>>}

\* What createSingleGalaxyGroup(params) returns and the buffers it has
\* filled, with the draw of its divisor rand(3, 6).
BuildOf(d, params) ==
    [dustDivisor |-> d.u.dustDivisor,
     clouds |-> createSingleGalaxyGroup(d.u, params),
     buffers |-> PointBuffers(d, params)]

\* createSingleGalaxyGroup(params) is called with the generated parameters,
\* the star point count set by the caller.
CreateGalaxy ==
    /\ galaxy # Null
    /\ galaxy.built = Null
    /\ \E n \in PointCounts, u \in UtilityUnit, points \in PointPatterns :
        galaxy' = [galaxy EXCEPT
                     !.params.numStarPoints = n,
                     !.built = BuildOf([u |-> [dustDivisor |-> u], points |-> points],
                                       [galaxy.params EXCEPT !.numStarPoints = n])]
    /\ UNCHANGED sceneVars

NextGalaxy ==
    \/ GenerateParameters
    \/ CreateGalaxy

SpecGalaxy == Init /\ [][NextGalaxy]_vars

\* --------------------------------------------------------------- properties
\* The instances of the live collection.
Live == Range(galaxyInstancesRef)

\* Instance i has had its star cloud released.
Disposed(i) == disposeCount[StarOf(i)] > 0

\* The step is a frame tick: animate ran at a later time than the last frame.
IsTick == lastFrameTime' # lastFrameTime

\* The step is a regeneration by the Re-generate button, the count slider or
\* the spread slider.
IsRegenerate == props'.regenerationKey # props.regenerationKey
IsCountChange == props'.numGalaxies # props.numGalaxies
IsSpreadChange == props'.galaxySpread # props.galaxySpread
IsTrigger == props'.disintegrationTriggerKey # props.disintegrationTriggerKey

\* The duration of an instance's animation, in milliseconds.
DurationMs(g) == RatMul(g.disintegrationDuration, FromInt(MsPerSecond))

\* The longest delay plus the longest animation: 3000 ms + 4500 ms.
LongestSequenceMs == FromInt(DelayMaxMs + 4500)

\* C1 as stated: after a trigger, with frame ticks continuing and no later
\* regenerate or trigger, the collection is empty within 3000 ms + 4500 ms
\* of the trigger: no triggered instance is still live later than that.
C1_EmptyWithinDelayPlusDuration ==
    \A i \in Live :
        instances[i].disintegrationTriggerTime # Null
        => RatLeq(FromInt(clock),
                  RatAdd(instances[i].disintegrationTriggerTime, LongestSequenceMs))

\* C1 as amended: the delay and the duration are observed at frame ticks
\* only, so a triggered instance is live no later than its trigger time plus
\* 3000 ms + 4500 ms plus two frame intervals: it starts to disintegrate
\* within one frame interval of trigger + delay and is removed within one
\* frame interval of start + duration.
C1_EmptyWithinTwoFramesMore ==
    \A i \in Live :
        instances[i].disintegrationTriggerTime # Null
        => /\ RatLeq(FromInt(clock),
                     RatAdd(instances[i].disintegrationTriggerTime,
                            RatAdd(LongestSequenceMs, FromInt(2 * FramePeriod))))
           /\ ~instances[i].isDisintegrating
              => RatLeq(FromInt(clock),
                        RatAdd(RatAdd(instances[i].disintegrationTriggerTime,
                                      instances[i].disintegrationDelay),
                               FromInt(FramePeriod)))
           /\ instances[i].isDisintegrating
              => /\ RatLeq(instances[i].disintegrationAnimationStartTime,
                           RatAdd(RatAdd(instances[i].disintegrationTriggerTime,
                                         instances[i].disintegrationDelay),
                                  FromInt(FramePeriod)))
                 /\ RatLeq(FromInt(clock),
                           RatAdd(RatAdd(instances[i].disintegrationAnimationStartTime,
                                         DurationMs(instances[i])),
                                  FromInt(FramePeriod)))

\* The collection has been emptied by disintegration alone, later than
\* 3000 ms + 4500 ms after the trigger.
C1_Witness ==
    /\ phase = "mounted"
    /\ galaxyInstancesRef = <<>>
    /\ props.regenerationKey = 0
    /\ Len(instances) = props.numGalaxies
    /\ \A i \in DOMAIN instances : Disposed(i) /\ instances[i].isDisintegrating
    /\ \E i \in DOMAIN instances :
        RatLt(RatAdd(instances[i].disintegrationTriggerTime, LongestSequenceMs),
              FromInt(lastFrameTime))

\* C2: after a regeneration (regenerate, count change or spread change) with
\* count N and spread S the collection holds exactly N distinct instances,
\* none of which existed before, each at most 0.9 * S from the origin.
C2_RegenerationBuildsFreshCollection ==
    [][(IsRegenerate \/ IsCountChange \/ IsSpreadChange)
       => /\ Len(galaxyInstancesRef') = props'.numGalaxies
          /\ Cardinality(Range(galaxyInstancesRef')) = props'.numGalaxies
          /\ Range(galaxyInstancesRef') \cap DOMAIN instances = {}
          /\ \A i \in Range(galaxyInstancesRef') :
                /\ ~Disposed(i)'
                /\ GroupOf(i) \in sceneRef'.children
                /\ RatLeq(RatMul(FromInt(100), LengthSq(instances'[i].group.position)),
                          FromInt(81 * props'.galaxySpread * props'.galaxySpread))]_vars

\* A regeneration after the first generation: the collection is fresh, of the
\* current count, and an instance sits farther out than 0.8 * S.
C2_Witness ==
    /\ phase = "mounted"
    /\ props.regenerationKey > 0
    /\ Len(galaxyInstancesRef) = props.numGalaxies
    /\ \A i \in Live : i > MaxGalaxies
    /\ \E i \in Live :
        RatLt(FromInt(64 * props.galaxySpread * props.galaxySpread),
              RatMul(FromInt(100), LengthSq(instances[i].group.position)))

\* C3: a disintegration trigger sets every instance of the live collection
\* to primed, with the time of the command as its trigger time and a delay
\* in [0, 3000] ms, whatever its state was: it is not disintegrating and has
\* no animation start time afterwards.
C3_TriggerPrimesEveryLiveInstance ==
    [][IsTrigger
       => /\ galaxyInstancesRef' = galaxyInstancesRef
          /\ \A i \in Live :
                /\ instances'[i].disintegrationTriggerTime = FromInt(clock)
                /\ RatLeq(Zero, instances'[i].disintegrationDelay)
                /\ RatLeq(instances'[i].disintegrationDelay, FromInt(DelayMaxMs))
                /\ ~instances'[i].isDisintegrating
                /\ instances'[i].disintegrationAnimationStartTime = Null]_vars

\* A second trigger found an instance that had started to disintegrate and
\* primed it again, and two instances of the collection drew different
\* delays.
C3_Witness ==
    /\ props.disintegrationTriggerKey = 2
    /\ \E i \in Live :
        /\ instances[i].disintegrationInitialGroupPos # Null
        /\ ~instances[i].isDisintegrating
        /\ instances[i].disintegrationAnimationStartTime = Null
        /\ instances[i].disintegrationTriggerTime = FromInt(clock)
        /\ \E j \in Live :
            instances[j].disintegrationDelay # instances[i].disintegrationDelay

\* C4: in a frame tick a primed instance starts to disintegrate exactly when
\* now >= triggerTime + delay, so it starts in the first such tick and in no
\* earlier one; an instance that was never triggered does not start.
C4_EntersAtFirstTickPastDelay ==
    [][IsTick
       => \A i \in Live :
            IF instances[i].disintegrationTriggerTime = Null
            THEN ~instances'[i].isDisintegrating
            ELSE ~instances[i].isDisintegrating
                 => (instances'[i].isDisintegrating
                     <=> RatLeq(RatAdd(instances[i].disintegrationTriggerTime,
                                       instances[i].disintegrationDelay),
                                FromInt(clock)))]_vars

\* After a tick at exactly triggerTime + delay one instance disintegrates,
\* from that tick on, and another, whose delay has not expired, is still
\* primed.
C4_Witness ==
    /\ lastFrameTime = clock
    /\ \E i \in Live :
        /\ instances[i].isDisintegrating
        /\ instances[i].disintegrationAnimationStartTime = FromInt(clock)
        /\ RatAdd(instances[i].disintegrationTriggerTime,
                  instances[i].disintegrationDelay) = FromInt(clock)
    /\ \E j \in Live :
        /\ instances[j].disintegrationTriggerTime # Null
        /\ ~instances[j].isDisintegrating
        /\ RatLt(FromInt(clock), RatAdd(instances[j].disintegrationTriggerTime,
                                        instances[j].disintegrationDelay))

\* The progress of instance g has reached 1 at time now: it disintegrates
\* and now - start >= duration.
ProgressReachedOne(g, now) ==
    /\ g.isDisintegrating
    /\ g.disintegrationAnimationStartTime # Null
    /\ RatLeq(RatAdd(g.disintegrationAnimationStartTime, DurationMs(g)), FromInt(now))

\* The clouds of instance i have each been released n times.
ReleasedTimes(i, n) ==
    /\ disposeCount[StarOf(i)] = n
    /\ disposeCount[<<"dust", i>>] = IF instances[i].dustSystem = Null THEN 0 ELSE n

\* C5: after the tick in which the progress of an instance reaches 1 the
\* instance is not in the collection, its group is not in the scene, and
\* its star and dust geometry have been released exactly once; a tick
\* removes no other instance.
C5_CompletionRemovesAndReleasesOnce ==
    [][IsTick
       => \A i \in Live :
            IF ProgressReachedOne(instances[i], clock)
            THEN /\ i \notin Range(galaxyInstancesRef')
                 /\ GroupOf(i) \notin sceneRef'.children
                 /\ StarOf(i) \notin sceneRef'.children
                 /\ ReleasedTimes(i, 0)
                 /\ ReleasedTimes(i, 1)'
            ELSE /\ i \in Range(galaxyInstancesRef')
                 /\ ReleasedTimes(i, 0)']_vars

\* A tick has completed one instance, now released and out of the scene,
\* and kept another, which still disintegrates.
C5_Witness ==
    /\ phase = "mounted"
    /\ lastFrameTime = clock
    /\ \E i \in DOMAIN instances \ Live :
        /\ ProgressReachedOne(instances[i], clock)
        /\ ~ProgressReachedOne(instances[i], clock - FramePeriod)
        /\ ReleasedTimes(i, 1)
        /\ instances[i].dustSystem # Null
    /\ \E j \in Live : instances[j].isDisintegrating

\* C6: over every interleaving of ticks, regenerations, triggers and the
\* teardown, the clouds of an instance are released exactly once: not at
\* all while it is in the collection, once when it has left it, never
\* twice.
C6_ReleasedExactlyOnce ==
    \A i \in DOMAIN instances :
        IF i \in Live THEN ReleasedTimes(i, 0) ELSE ReleasedTimes(i, 1)

\* After the teardown: one instance was released when its disintegration
\* completed in a tick, another, still disintegrating, by the teardown.
C6_Witness ==
    /\ phase = "unmounted"
    /\ \E i \in DOMAIN instances :
        /\ ProgressReachedOne(instances[i], lastFrameTime)
        /\ ReleasedTimes(i, 1)
    /\ \E j \in DOMAIN instances :
        /\ ~ProgressReachedOne(instances[j], lastFrameTime)
        /\ instances[j].isDisintegrating
        /\ ReleasedTimes(j, 1)

\* The object is a child of the scene.
InScene(object, scene) == scene # Null /\ object \in scene.children

\* C7: disposal is terminal: an instance whose clouds have been released,
\* by completion, regeneration or teardown, is changed by no later step,
\* tick or trigger, and does not come back to the collection.
C7_DisposalIsTerminal ==
    [][\A i \in DOMAIN instances :
         Disposed(i)
         => /\ instances'[i] = instances[i]
            /\ i \notin Range(galaxyInstancesRef')
            /\ ~InScene(GroupOf(i), sceneRef')
            /\ ReleasedTimes(i, 1)']_vars

\* A completed instance has been passed by a tick and by a trigger: the
\* instances of the collection were primed after it was released, and it
\* keeps the trigger time of its own disintegration.
C7_Witness ==
    /\ phase = "mounted"
    /\ \E i \in DOMAIN instances \ Live :
        /\ Disposed(i)
        /\ ProgressReachedOne(instances[i], lastFrameTime)
        /\ \E j \in Live :
            /\ instances[j].disintegrationTriggerTime # Null
            /\ RatLeq(RatAdd(instances[i].disintegrationAnimationStartTime,
                             DurationMs(instances[i])),
                      instances[j].disintegrationTriggerTime)
            /\ RatLt(instances[j].disintegrationTriggerTime, FromInt(lastFrameTime))
            /\ instances[i].disintegrationTriggerTime # instances[j].disintegrationTriggerTime

\* C8 as stated: the regenerate command releases the starfield that existed
\* and puts a new one in the scene.
C8_RegenerateRebuildsStarfield ==
    [][IsRegenerate
       => /\ backgroundStarsRef' # backgroundStarsRef
          /\ disposeCount'[backgroundStarsRef] = 1
          /\ backgroundStarsRef' \in sceneRef'.children]_vars

\* C8 as amended: the regenerate command disposes every instance of the
\* collection and builds the new ones, and leaves the background starfield
\* as it is: the same object, not released, still in the scene; no
\* starfield is built.
C8_RegenerateKeepsStarfield ==
    [][IsRegenerate
       => /\ backgroundStarsRef' = backgroundStarsRef
          /\ backgroundStarsRef # Null
          /\ disposeCount'[backgroundStarsRef] = 0
          /\ backgroundStarsRef \in sceneRef'.children
          /\ starfields' = starfields
          /\ \A i \in Live : Disposed(i)' /\ GroupOf(i) \notin sceneRef'.children
          /\ Len(galaxyInstancesRef') = props.numGalaxies]_vars

\* After a regenerate command the starfield of the first commit is still the
\* one in the scene, and the first instances are released.
C8_Witness ==
    /\ phase = "mounted"
    /\ props.regenerationKey > 0
    /\ props.galaxySpread = DefaultSpread
    /\ backgroundStarsRef = <<"bg", 1>>
    /\ Len(starfields) = 1
    /\ disposeCount[<<"bg", 1>>] = 0
    /\ <<"bg", 1>> \in sceneRef.children
    /\ \E i \in DOMAIN instances : Disposed(i)

\* The starfields of the scene.
StarfieldsIn(scene) == {c \in scene.children : c[1] = "bg"}

\* C9: a change of spread with the count unchanged regenerates the
\* collection and rebuilds the starfield at radius 5 * spread: the old
\* starfield is released, exactly one new one is added, and every old
\* instance is replaced.
C9_SpreadChangeRebuildsAll ==
    [][IsSpreadChange
       => /\ props'.numGalaxies = props.numGalaxies
          /\ disposeCount[backgroundStarsRef] = 0
          /\ disposeCount'[backgroundStarsRef] = 1
          /\ Len(starfields') = Len(starfields) + 1
          /\ backgroundStarsRef' = <<"bg", Len(starfields')>>
          /\ disposeCount'[backgroundStarsRef'] = 0
          /\ StarfieldsIn(sceneRef') = {backgroundStarsRef'}
          /\ starfields'[Len(starfields')].bgRadius = FromInt(5 * props'.galaxySpread)
          /\ props'.galaxySpread = 200
             => starfields'[Len(starfields')].bgRadius = FromInt(1000)
          /\ \A i \in Live :
                /\ i \notin Range(galaxyInstancesRef')
                /\ Disposed(i)'
                /\ GroupOf(i) \notin sceneRef'.children
          /\ Len(galaxyInstancesRef') = props.numGalaxies
          /\ Range(galaxyInstancesRef') \cap DOMAIN instances = {}]_vars

\* The spread is 200 after one change: the second starfield, of radius
\* 1000, is the one in the scene, and the first is released.
C9_Witness ==
    /\ phase = "mounted"
    /\ props.galaxySpread = 200
    /\ props.numGalaxies = MaxGalaxies
    /\ backgroundStarsRef = <<"bg", 2>>
    /\ starfields[2].bgRadius = FromInt(1000)
    /\ disposeCount[<<"bg", 1>>] = 1
    /\ StarfieldsIn(sceneRef) = {<<"bg", 2>>}
    /\ Live \cap (1..MaxGalaxies) = {}

IsMultiplierChange ==
    \/ props'.galaxyOrbitSpeedMultiplier # props.galaxyOrbitSpeedMultiplier
    \/ props'.armInternalSpeedMultiplier # props.armInternalSpeedMultiplier

\* C10: a change of the orbit or arm speed multiplier regenerates nothing and
\* leaves the collection and every instance as they are; every tick rotates
\* each instance by its base speeds times the multipliers written last.
C10_MultipliersTakeEffectWithoutRegeneration ==
    [][/\ IsMultiplierChange
          => /\ galaxyInstancesRef' = galaxyInstancesRef
             /\ instances' = instances
             /\ starfields' = starfields
             /\ backgroundStarsRef' = backgroundStarsRef
             /\ disposeCount' = disposeCount
             /\ sceneRef' = sceneRef
       /\ IsTick
          => \A i \in Live :
                /\ instances'[i].group.rotationY =
                      RatAdd(instances[i].group.rotationY,
                             RatMul(RatMul(instances[i].baseOrbitSpeed,
                                           props.galaxyOrbitSpeedMultiplier),
                                    FromInt(RotationFactor)))
                /\ instances'[i].starSystem.rotationY =
                      RatAdd(instances[i].starSystem.rotationY,
                             RatMul(RatMul(instances[i].baseArmSpeed,
                                           props.armInternalSpeedMultiplier),
                                    FromInt(RotationFactor)))]_vars

\* Both multipliers were changed, and the one tick since then rotated an
\* instance by its base speeds times the new values.
C10_Witness ==
    /\ props.galaxyOrbitSpeedMultiplier = Rat(1, 10)
    /\ props.armInternalSpeedMultiplier = Rat(1, 10)
    /\ lastFrameTime = clock
    /\ \E i \in Live :
        /\ instances[i].group.rotationY =
              RatMul(instances[i].baseOrbitSpeed, FromInt(10))
        /\ instances[i].starSystem.rotationY =
              RatMul(instances[i].baseArmSpeed, FromInt(10))

\* Instance g is Active: never triggered since it was built.
Active(g) ==
    /\ g.disintegrationTriggerTime = Null
    /\ ~g.isDisintegrating
    /\ g.disintegrationAnimationStartTime = Null

\* C11: a regeneration cancels every disintegration sequence in flight:
\* right after it every instance of the collection is Active, and an Active
\* instance of the collection stays Active over every step that is not a
\* trigger.
C11_RegenerationCancelsDisintegration ==
    [][/\ (IsRegenerate \/ IsCountChange \/ IsSpreadChange)
          => \A i \in Range(galaxyInstancesRef') : Active(instances'[i])
       /\ ~IsTrigger
          => \A i \in Live \cap Range(galaxyInstancesRef') :
                Active(instances[i]) => Active(instances'[i])]_vars

\* An instance was primed and disposed by a regeneration before its delay
\* expired; a tick has run later than that delay would have expired, and
\* every instance of the new collection is Active still.
C11_Witness ==
    /\ phase = "mounted"
    /\ Live # {}
    /\ \A j \in Live : Active(instances[j])
    /\ \E i \in DOMAIN instances \ Live :
        /\ instances[i].disintegrationTriggerTime # Null
        /\ ~instances[i].isDisintegrating
        /\ RatLt(Zero, instances[i].disintegrationDelay)
        /\ RatLeq(RatAdd(instances[i].disintegrationTriggerTime,
                         instances[i].disintegrationDelay),
                  FromInt(lastFrameTime))

\* The progress the last tick computed for instance g, read back from the
\* scale it wrote: scale = 1 + progress * disintegrationRandomScaleFactor.
ProgressShown(g) ==
    RatDiv(RatSub(g.starSystem.scale, One), g.disintegrationRandomScaleFactor)

\* C12 as stated, its deadline: the progress of a disintegrating instance
\* reaches 1 within duration seconds of its start, so that no instance is
\* still disintegrating later than start + duration.
C12_ProgressCompleteWithinDuration ==
    \A i \in Live :
        instances[i].isDisintegrating
        => RatLeq(FromInt(clock),
                  RatAdd(instances[i].disintegrationAnimationStartTime,
                         DurationMs(instances[i])))

\* C12 as amended: from the tick in which an instance starts to disintegrate
\* the progress computed at successive ticks is 0 at first, elapsed /
\* duration and not less than at the tick before while that is below 1, and
\* exactly 1, with the instance removed, at the first tick at or after
\* duration seconds from the start: within duration seconds plus one frame
\* interval.
C12_ProgressMonotoneToOne ==
    [][IsTick
       => \A i \in Live :
            /\ (~instances[i].isDisintegrating /\ instances'[i].isDisintegrating)
               => /\ i \in Range(galaxyInstancesRef')
                  /\ instances'[i].disintegrationAnimationStartTime = FromInt(clock)
                  /\ ProgressShown(instances'[i]) = Zero
            /\ instances[i].isDisintegrating
               => /\ instances'[i].disintegrationAnimationStartTime =
                        instances[i].disintegrationAnimationStartTime
                  /\ instances'[i].disintegrationDuration =
                        instances[i].disintegrationDuration
                  /\ RatLeq(FromInt(clock),
                            RatAdd(RatAdd(instances[i].disintegrationAnimationStartTime,
                                          DurationMs(instances[i])),
                                   FromInt(FramePeriod)))
                  /\ IF RatLeq(RatAdd(instances[i].disintegrationAnimationStartTime,
                                      DurationMs(instances[i])),
                               FromInt(clock))
                     THEN i \notin Range(galaxyInstancesRef')
                     ELSE /\ i \in Range(galaxyInstancesRef')
                          /\ ProgressShown(instances'[i]) =
                                RatDiv(RatSub(FromInt(clock),
                                              instances[i].disintegrationAnimationStartTime),
                                       DurationMs(instances[i]))
                          /\ RatLeq(ProgressShown(instances[i]),
                                    ProgressShown(instances'[i]))
                          /\ RatLt(ProgressShown(instances'[i]), One)]_vars

\* A tick has just run: one instance is three frames into its animation,
\* with a progress between 0 and 1, and another was removed by this tick,
\* the first one after its duration had passed, later than the duration.
C12_Witness ==
    /\ phase = "mounted"
    /\ lastFrameTime = clock
    /\ \E i \in Live :
        /\ instances[i].isDisintegrating
        /\ RatLeq(RatAdd(instances[i].disintegrationAnimationStartTime,
                         FromInt(3 * FramePeriod)),
                  FromInt(clock))
        /\ RatLt(Zero, ProgressShown(instances[i]))
        /\ RatLt(ProgressShown(instances[i]), One)
    /\ \E j \in DOMAIN instances \ Live :
        /\ instances[j].isDisintegrating
        /\ Disposed(j)
        /\ RatLt(RatAdd(instances[j].disintegrationAnimationStartTime,
                        DurationMs(instances[j])),
                 FromInt(clock))
        /\ RatLt(FromInt(clock - FramePeriod),
                 RatAdd(instances[j].disintegrationAnimationStartTime,
                        DurationMs(instances[j])))

\* The fade factor the claim names for a progress: 1 - progress^2.
FadeAt(progress) == RatSub(One, RatMul(progress, progress))

\* C13 as stated: at every tick of a disintegrating instance the opacity of
\* its star cloud, and of its dust cloud, is original * (1 - progress^2),
\* which is the original at progress 0 and 0 at progress 1.
C13_OpacityFollowsProgressAtEveryTick ==
    [][IsTick
       => \A i \in Live :
            Animating(instances'[i])
            => /\ instances'[i].starSystem.opacity =
                     RatMul(instances'[i].originalStarMaterialOpacity,
                            FadeAt(Progress(instances'[i], clock)))
               /\ instances'[i].dustSystem # Null
                  => instances'[i].dustSystem.opacity =
                        RatMul(instances'[i].originalDustMaterialOpacity,
                               FadeAt(Progress(instances'[i], clock)))]_vars

\* C13 as amended: at every tick in which the progress of a disintegrating
\* instance is below 1 the opacity of its star cloud, and of its dust cloud,
\* is original * (1 - progress^2); in the tick in which the progress is 1
\* the clouds are released and removed and their opacity is left as the
\* tick before wrote it.
C13_OpacityFollowsProgressBelowOne ==
    [][IsTick
       => \A i \in Live :
            Animating(instances'[i])
            => IF RatLt(Progress(instances'[i], clock), One)
               THEN /\ i \in Range(galaxyInstancesRef')
                    /\ instances'[i].starSystem.opacity =
                          RatMul(instances'[i].originalStarMaterialOpacity,
                                 FadeAt(Progress(instances'[i], clock)))
                    /\ instances'[i].dustSystem # Null
                       => instances'[i].dustSystem.opacity =
                             RatMul(instances'[i].originalDustMaterialOpacity,
                                    FadeAt(Progress(instances'[i], clock)))
               ELSE /\ i \notin Range(galaxyInstancesRef')
                    /\ Disposed(i)'
                    /\ instances'[i].starSystem.opacity = instances[i].starSystem.opacity
                    /\ instances'[i].dustSystem # Null
                       => instances'[i].dustSystem.opacity =
                             instances[i].dustSystem.opacity]_vars

\* A tick has just run: one instance is at progress 1/2 with both clouds at
\* 3/4 of their original opacity, and another, whose progress reached 1, was
\* released with its star cloud at an opacity above 0.
C13_Witness ==
    /\ phase = "mounted"
    /\ lastFrameTime = clock
    /\ \E i \in Live :
        /\ instances[i].isDisintegrating
        /\ ProgressShown(instances[i]) = Rat(1, 2)
        /\ instances[i].starSystem.opacity =
              RatMul(instances[i].originalStarMaterialOpacity, Rat(3, 4))
        /\ instances[i].dustSystem # Null
        /\ instances[i].dustSystem.opacity =
              RatMul(instances[i].originalDustMaterialOpacity, Rat(3, 4))
    /\ \E j \in DOMAIN instances \ Live :
        /\ Disposed(j)
        /\ ProgressReachedOne(instances[j], lastFrameTime)
        /\ RatLt(Zero, instances[j].starSystem.opacity)

\* C15: ticks run only while the component is mounted. Every tick runs on a
\* requested frame of the mounted component and requests the next one; the
\* unmount cancels the requested frame, and once unmounted no tick runs, no
\* frame is requested, and no instance is updated and nothing is rendered.
C15_TicksOnlyWhileMounted ==
    [][/\ IsTick => /\ phase = "mounted"
                    /\ animationFrameIdRef
                    /\ animationFrameIdRef'
       /\ (phase = "mounted" /\ phase' = "unmounted") => ~animationFrameIdRef'
       /\ phase = "unmounted"
          => /\ ~animationFrameIdRef /\ ~animationFrameIdRef'
             /\ UNCHANGED <<lastFrameTime, instances, galaxyInstancesRef, rendererRef,
                            sceneRef, disposeCount>>]_vars

\* The component was unmounted after frames had run, with a frame requested,
\* and more than the time of a frame has passed since the last one.
C15_Witness ==
    /\ phase = "unmounted"
    /\ lastFrameTime > 0
    /\ clock >= lastFrameTime + 2 * FramePeriod
    /\ instances # <<>>

\* The rotation a tick adds for a base speed and the multiplier the ref holds.
StepOf(baseSpeed, multiplier) ==
    RatMul(RatMul(baseSpeed, multiplier), FromInt(RotationFactor))

\* C20: every tick applies the rotation step to every instance of the
\* collection whatever its phase, also to the instance that starts to
\* disintegrate in this tick and to the one this tick disposes: the group
\* turns by its orbit step, the star cloud by its arm step and the dust cloud
\* by 0.9 to 1.1 times the arm step; the disintegration check and animation
\* act on the instance so rotated and leave the rotation as it is.
C20_RotationAppliedInEveryPhase ==
    [][IsTick
       => \A i \in Live :
            /\ RatSub(instances'[i].group.rotationY, instances[i].group.rotationY) =
                  StepOf(instances[i].baseOrbitSpeed, galaxyOrbitSpeedMultiplierRefCurrent)
            /\ RatSub(instances'[i].starSystem.rotationY,
                      instances[i].starSystem.rotationY) =
                  StepOf(instances[i].baseArmSpeed, armInternalSpeedMultiplierRefCurrent)
            /\ instances[i].dustSystem # Null
               => /\ instances'[i].dustSystem # Null
                  /\ IF StepOf(instances[i].baseArmSpeed,
                               armInternalSpeedMultiplierRefCurrent) = Zero
                     THEN instances'[i].dustSystem.rotationY =
                             instances[i].dustSystem.rotationY
                     ELSE /\ RatLeq(Rat(9, 10),
                                    RatDiv(RatSub(instances'[i].dustSystem.rotationY,
                                                  instances[i].dustSystem.rotationY),
                                           StepOf(instances[i].baseArmSpeed,
                                                  armInternalSpeedMultiplierRefCurrent)))
                          /\ RatLeq(RatDiv(RatSub(instances'[i].dustSystem.rotationY,
                                                  instances[i].dustSystem.rotationY),
                                           StepOf(instances[i].baseArmSpeed,
                                                  armInternalSpeedMultiplierRefCurrent)),
                                    Rat(11, 10))]_vars

\* The third tick since the mount has just run, the multipliers being the
\* initial ones: it started the disintegration of one instance built at the
\* mount and disposed another, and both have turned three steps.
C20_Witness ==
    /\ phase = "mounted"
    /\ lastFrameTime = clock
    /\ lastFrameTime = 3 * FramePeriod
    /\ galaxyOrbitSpeedMultiplierRefCurrent = Rat(3, 100)
    /\ armInternalSpeedMultiplierRefCurrent = Rat(3, 100)
    /\ \E i \in Live \cap (1..MaxGalaxies) :
        /\ instances[i].isDisintegrating
        /\ instances[i].disintegrationAnimationStartTime = FromInt(lastFrameTime)
        /\ instances[i].group.rotationY = RatMul(instances[i].baseOrbitSpeed, FromInt(9))
        /\ instances[i].starSystem.rotationY = RatMul(instances[i].baseArmSpeed, FromInt(9))
    /\ \E j \in (1..MaxGalaxies) \ Live :
        /\ Disposed(j)
        /\ ProgressReachedOne(instances[j], lastFrameTime)
        /\ ~ProgressReachedOne(instances[j], lastFrameTime - FramePeriod)
        /\ instances[j].group.rotationY = RatMul(instances[j].baseOrbitSpeed, FromInt(9))
        /\ instances[j].starSystem.rotationY = RatMul(instances[j].baseArmSpeed, FromInt(9))
        /\ instances[j].dustSystem.rotationY = RatMul(instances[j].baseArmSpeed, FromInt(9))

C16_GeneratedParametersInRange ==
    (galaxy # Null /\ galaxy.built = Null /\ galaxy.universeRadius > 0)
    => /\ RatLeq(Zero, galaxy.params.nebulaProbability)
       /\ RatLeq(galaxy.params.nebulaProbability, One)
       /\ RatLeq(Zero, galaxy.params.dustNebulaProbability)
       /\ RatLeq(galaxy.params.dustNebulaProbability, One)
       /\ galaxy.params.numArms \in 2..5
       /\ RatLt(Zero, galaxy.params.radius)
       /\ galaxy.params.numStarPoints \in Nat \ {0}

\* Parameters generated for the largest universe radius with draws close to
\* 1: five arms, nearly 12000 star points, probabilities near their maxima.
C16_Witness ==
    /\ galaxy # Null
    /\ galaxy.built = Null
    /\ galaxy.universeRadius = 300
    /\ galaxy.params.numArms = 5
    /\ galaxy.params.numStarPoints > 11900
    /\ RatLt(Rat(24, 100), galaxy.params.nebulaProbability)
    /\ RatLt(Rat(9, 100), galaxy.params.dustNebulaProbability)

\* The divisor rand(3, 6) of the build, and whether k is the star point count
\* divided by it, rounded down.
DivisorOf(built) == RatAdd(FromInt(3), RatMul(built.dustDivisor, FromInt(3)))
IsDustCount(k, built, numStarPoints) ==
    /\ RatLeq(RatMul(FromInt(k), DivisorOf(built)), FromInt(numStarPoints))
    /\ RatLt(FromInt(numStarPoints), RatMul(FromInt(k + 1), DivisorOf(built)))

\* C17: the position and colour buffers of the star cloud hold 3 numbers per
\* star point and those of the dust cloud 3 per dust point, the dust point
\* count being the star point count divided by the divisor drawn in [3, 6),
\* rounded down; there is no dust cloud exactly when that count is 0, and for
\* a star point count of 0 the star buffers are empty and there is no dust
\* cloud.
C17_BuffersHoldThreePerPoint ==
    (galaxy # Null /\ galaxy.built # Null)
    => /\ Len(galaxy.built.buffers.star.positions) = 3 * galaxy.params.numStarPoints
       /\ Len(galaxy.built.buffers.star.colors) = 3 * galaxy.params.numStarPoints
       /\ galaxy.built.clouds.starSystem.numPoints = galaxy.params.numStarPoints
       /\ \E k \in 0..galaxy.params.numStarPoints :
            /\ IsDustCount(k, galaxy.built, galaxy.params.numStarPoints)
            /\ (k = 0) <=> (galaxy.built.clouds.dustSystem = Null)
            /\ (k = 0) <=> (galaxy.built.buffers.dust = Null)
            /\ k > 0
               => /\ Len(galaxy.built.buffers.dust.positions) = 3 * k
                  /\ Len(galaxy.built.buffers.dust.colors) = 3 * k
                  /\ galaxy.built.clouds.dustSystem.numPoints = k
       /\ galaxy.params.numStarPoints = 0
          => /\ galaxy.built.buffers.star.positions = <<>>
             /\ galaxy.built.buffers.star.colors = <<>>
             /\ galaxy.built.buffers.dust = Null

\* A galaxy of six star points was built with a divisor of 4.5: it has one
\* dust point, and every number of its buffers has been written.
C17_Witness ==
    /\ galaxy # Null
    /\ galaxy.built # Null
    /\ galaxy.params.numStarPoints = 6
    /\ galaxy.built.dustDivisor = Rat(1, 2)
    /\ galaxy.built.buffers.dust # Null
    /\ Len(galaxy.built.buffers.dust.positions) = 3
    /\ Len(galaxy.built.buffers.star.colors) = 18
    /\ \A k \in 1..18 : galaxy.built.buffers.star.colors[k] # Zero

\* C19: a galaxy built with radius 0 has every point at the origin: every
\* coordinate of its star and dust position buffers is finite, and is 0.
C19_RadiusZeroPointsAtOrigin ==
    (galaxy # Null /\ galaxy.built # Null /\ galaxy.params.radius = Zero)
    => /\ \A k \in DOMAIN galaxy.built.buffers.star.positions :
            /\ IsFinite(galaxy.built.buffers.star.positions[k])
            /\ galaxy.built.buffers.star.positions[k] = Zero
       /\ galaxy.built.buffers.dust # Null
          => \A k \in DOMAIN galaxy.built.buffers.dust.positions :
                /\ IsFinite(galaxy.built.buffers.dust.positions[k])
                /\ galaxy.built.buffers.dust.positions[k] = Zero

\* Every number of the colour buffer is a channel value: finite, in [0, 1].
ChannelsInRange(colors) ==
    \A k \in DOMAIN colors :
        /\ IsFinite(colors[k])
        /\ RatLeq(Zero, colors[k])
        /\ RatLeq(colors[k], One)

\* C18: every colour channel written to the colour buffer of a star cloud or
\* of a dust cloud lies in [0, 1], whatever branch coloured the point.
C18_ColourChannelsInUnitRange ==
    (galaxy # Null /\ galaxy.built # Null)
    => /\ ChannelsInRange(galaxy.built.buffers.star.colors)
       /\ galaxy.built.buffers.dust # Null
          => ChannelsInRange(galaxy.built.buffers.dust.colors)

\* The instances of the list whose star cloud is not released under the
\* counts dc, in the order of the list.
KeptOf(list, dc) == SelectSeq(list, LAMBDA i : dc[StarOf(i)] = 0)

\* C21: a tick updates every instance of the collection it finds exactly
\* once (each turns by one rotation step), replaces the collection by the
\* instances it has not disposed, in their order, and then renders once: the
\* render call draws the scene as the tick left it, without the group of an
\* instance the tick disposed and with the group of every instance kept.
C21_UpdateCompactRenderOnce ==
    [][IsTick
       => /\ \A i \in Live :
                /\ RatSub(instances'[i].group.rotationY, instances[i].group.rotationY) =
                      StepOf(instances[i].baseOrbitSpeed,
                             galaxyOrbitSpeedMultiplierRefCurrent)
                /\ RatSub(instances'[i].starSystem.rotationY,
                          instances[i].starSystem.rotationY) =
                      StepOf(instances[i].baseArmSpeed, armInternalSpeedMultiplierRefCurrent)
          /\ \A i \in DOMAIN instances \ Live : instances'[i] = instances[i]
          /\ galaxyInstancesRef' = KeptOf(galaxyInstancesRef, disposeCount')
          /\ rendererRef'.calls = rendererRef.calls + 1
          /\ rendererRef'.drawn = sceneRef'.children
          /\ \A i \in Live :
                IF Disposed(i)'
                THEN /\ GroupOf(i) \notin rendererRef'.drawn
                     /\ StarOf(i) \notin rendererRef'.drawn
                ELSE GroupOf(i) \in rendererRef'.drawn]_vars

\* A tick has just rendered: it disposed the first instance of a collection
\* of two and kept the second, whose group is drawn and the first's is not;
\* one render call was made at the mount and one by each tick.
C21_Witness ==
    /\ phase = "mounted"
    /\ lastFrameTime = clock
    /\ rendererRef.calls = (clock \div FramePeriod) + 1
    /\ \E i \in DOMAIN instances \ Live, j \in Live :
        /\ i < j
        /\ Disposed(i)
        /\ ProgressReachedOne(instances[i], lastFrameTime)
        /\ ~ProgressReachedOne(instances[i], lastFrameTime - FramePeriod)
        /\ instances[j].isDisintegrating
        /\ GroupOf(i) \notin rendererRef.drawn
        /\ GroupOf(j) \in rendererRef.drawn

\* C22: in the tick in which an instance enters Disintegrating it records
\* the time of the tick as its start, the camera position of that instant as
\* its target, the position of its group as its initial position, a duration
\* in [2.0, 4.5] s and a scale factor in [2.5, 7.0], and its clouds are at
\* their original opacity and at scale 1 after the tick; while the instance
\* goes on disintegrating no step changes the target, the initial position,
\* the duration or the scale factor, whatever the camera does.
C22_EntryRecordsAndKeepsSnapshot ==
    [][/\ IsTick
          => \A i \in Live :
                (~instances[i].isDisintegrating /\ instances'[i].isDisintegrating)
                => /\ instances'[i].disintegrationAnimationStartTime = FromInt(clock)
                   /\ instances'[i].disintegrationTargetCamPos = cameraRef.position
                   /\ instances'[i].disintegrationInitialGroupPos =
                         instances[i].group.position
                   /\ RatLeq(FromInt(2), instances'[i].disintegrationDuration)
                   /\ RatLeq(instances'[i].disintegrationDuration, Rat(45, 10))
                   /\ RatLeq(Rat(25, 10), instances'[i].disintegrationRandomScaleFactor)
                   /\ RatLeq(instances'[i].disintegrationRandomScaleFactor, FromInt(7))
                   /\ instances'[i].starSystem.opacity =
                         instances[i].originalStarMaterialOpacity
                   /\ instances'[i].starSystem.scale = One
                   /\ instances[i].dustSystem # Null
                      => /\ instances'[i].dustSystem.opacity =
                               instances[i].originalDustMaterialOpacity
                         /\ instances'[i].dustSystem.scale = One
       /\ \A i \in DOMAIN instances :
            (instances[i].isDisintegrating /\ instances'[i].isDisintegrating)
            => /\ instances'[i].disintegrationTargetCamPos =
                     instances[i].disintegrationTargetCamPos
               /\ instances'[i].disintegrationInitialGroupPos =
                     instances[i].disintegrationInitialGroupPos
               /\ instances'[i].disintegrationDuration =
                     instances[i].disintegrationDuration
               /\ instances'[i].disintegrationRandomScaleFactor =
                     instances[i].disintegrationRandomScaleFactor]_vars

\* An instance entered Disintegrating with the camera where the mount put
\* it; the camera was dragged away since, and a later tick has moved the
\* instance on towards the position recorded, which the camera has left.
C22_Witness ==
    /\ phase = "mounted"
    /\ lastFrameTime = clock
    /\ cameraRef.position # InitialCameraPosition
    /\ \E i \in Live :
        /\ instances[i].isDisintegrating
        /\ instances[i].disintegrationTargetCamPos = InitialCameraPosition
        /\ RatLt(instances[i].disintegrationAnimationStartTime, FromInt(clock))
        /\ instances[i].group.position # instances[i].disintegrationInitialGroupPos
        /\ instances[i].disintegrationDuration = Rat(17, 4)
        /\ instances[i].disintegrationRandomScaleFactor = Rat(131, 20)

\* The progress of an instance that started at start with duration seconds
\* to go, at time now below start + duration: (now - start) / 1000 / duration.
ProgressAt(start, duration, now) ==
    RatDiv(RatDiv(RatSub(FromInt(now), start), FromInt(MsPerSecond)), duration)

\* The point at the fraction alpha of the way from a to b.
Between(a, b, alpha) ==
    [c \in 1..3 |-> RatAdd(RatMul(a[c], RatSub(One, alpha)), RatMul(b[c], alpha))]

\* C23: after every tick in which an instance disintegrates at a progress
\* below 1 the position of its group is the linear interpolation from its
\* recorded initial position to its recorded target by the progress, and
\* the scale of its star cloud and of its dust cloud is
\* 1 + progress * scale factor.
C23_PositionAndScaleFollowProgress ==
    [][IsTick
       => \A i \in Range(galaxyInstancesRef') :
            instances'[i].isDisintegrating
            => /\ RatLt(ProgressAt(instances'[i].disintegrationAnimationStartTime,
                                   instances'[i].disintegrationDuration, clock), One)
               /\ instances'[i].group.position =
                     Between(instances'[i].disintegrationInitialGroupPos,
                             instances'[i].disintegrationTargetCamPos,
                             ProgressAt(instances'[i].disintegrationAnimationStartTime,
                                        instances'[i].disintegrationDuration, clock))
               /\ instances'[i].starSystem.scale =
                     RatAdd(One,
                            RatMul(ProgressAt(instances'[i].disintegrationAnimationStartTime,
                                              instances'[i].disintegrationDuration, clock),
                                   instances'[i].disintegrationRandomScaleFactor))
               /\ instances'[i].dustSystem # Null
                  => instances'[i].dustSystem.scale = instances'[i].starSystem.scale]_vars

\* A tick has just run at progress 1/2 of an instance with a dust cloud: the
\* group is midway between its initial position and its target, which
\* differ, and both clouds are at scale 1 + scale factor / 2.
C23_Witness ==
    /\ phase = "mounted"
    /\ lastFrameTime = clock
    /\ \E i \in Live :
        /\ instances[i].isDisintegrating
        /\ ProgressAt(instances[i].disintegrationAnimationStartTime,
                      instances[i].disintegrationDuration, clock) = Rat(1, 2)
        /\ instances[i].disintegrationInitialGroupPos #
              instances[i].disintegrationTargetCamPos
        /\ instances[i].group.position =
              Between(instances[i].disintegrationInitialGroupPos,
                      instances[i].disintegrationTargetCamPos, Rat(1, 2))
        /\ instances[i].dustSystem # Null
        /\ instances[i].dustSystem.scale =
              RatAdd(One, RatMul(Rat(1, 2), instances[i].disintegrationRandomScaleFactor))

\* Instance g has disintegrated before: it holds the snapshots of an earlier
\* sequence.
StartedBefore(g) == g.disintegrationInitialGroupPos # Null

\* C24: an instance that was re-triggered while it disintegrated starts
\* again, when its new delay has expired, from where it is: in the tick of
\* its new start its initial position becomes the position it had reached,
\* which it keeps in this tick, its clouds are back at their original
\* opacity and at scale 1, and the target is the camera position and the
\* duration a new draw of this tick.
C24_RestartFromReachedPosition ==
    [][IsTick
       => \A i \in Live :
            (StartedBefore(instances[i]) /\ ~instances[i].isDisintegrating
             /\ instances'[i].isDisintegrating)
            => /\ instances'[i].disintegrationInitialGroupPos =
                     instances[i].group.position
               /\ instances'[i].group.position = instances[i].group.position
               /\ instances'[i].starSystem.opacity =
                     instances[i].originalStarMaterialOpacity
               /\ instances'[i].starSystem.scale = One
               /\ instances[i].dustSystem # Null
                  => /\ instances'[i].dustSystem.opacity =
                           instances[i].originalDustMaterialOpacity
                     /\ instances'[i].dustSystem.scale = One
               /\ instances'[i].disintegrationTargetCamPos = cameraRef.position
               /\ instances'[i].disintegrationAnimationStartTime = FromInt(clock)
               /\ RatLeq(FromInt(2), instances'[i].disintegrationDuration)
               /\ RatLeq(instances'[i].disintegrationDuration, Rat(45, 10))]_vars

\* After a second trigger an instance has just started again, from a
\* position on its way to the camera: a generated instance is placed on the
\* y or on the z axis, and this initial position is on neither.
C24_Witness ==
    /\ phase = "mounted"
    /\ lastFrameTime = clock
    /\ props.disintegrationTriggerKey = 2
    /\ \E i \in Live :
        /\ instances[i].isDisintegrating
        /\ instances[i].disintegrationAnimationStartTime = FromInt(clock)
        /\ instances[i].disintegrationInitialGroupPos = instances[i].group.position
        /\ instances[i].disintegrationInitialGroupPos[2] # Zero
        /\ instances[i].disintegrationInitialGroupPos[3] # Zero
        /\ instances[i].starSystem.scale = One
        /\ instances[i].starSystem.opacity = instances[i].originalStarMaterialOpacity

\* Instance g is Primed at time now with its delay still running.
PrimedAndWaiting(g, now) ==
    /\ g.disintegrationTriggerTime # Null
    /\ ~g.isDisintegrating
    /\ RatLt(FromInt(now), RatAdd(g.disintegrationTriggerTime, g.disintegrationDelay))

\* Instance g with the three rotations of instance h.
WithRotationsOf(g, h) ==
    [g EXCEPT !.group.rotationY = h.group.rotationY,
              !.starSystem.rotationY = h.starSystem.rotationY,
              !.dustSystem = IF @ = Null THEN @
                             ELSE [@ EXCEPT !.rotationY = h.dustSystem.rotationY]]

\* C25: for an instance that is Active, or Primed with its delay not yet
\* expired, a tick applies the orbital and arm rotations and nothing else:
\* but for the three rotation angles the instance is as it was (position,
\* scale and opacity of its clouds, disintegration fields), it is kept in
\* the collection, and nothing of it is released.
C25_OnlyRotationBeforeDisintegration ==
    [][IsTick
       => \A i \in Live :
            (Active(instances[i]) \/ PrimedAndWaiting(instances[i], clock))
            => /\ WithRotationsOf(instances'[i], instances[i]) = instances[i]
               /\ RatSub(instances'[i].group.rotationY, instances[i].group.rotationY) =
                     StepOf(instances[i].baseOrbitSpeed,
                            galaxyOrbitSpeedMultiplierRefCurrent)
               /\ RatSub(instances'[i].starSystem.rotationY,
                         instances[i].starSystem.rotationY) =
                     StepOf(instances[i].baseArmSpeed, armInternalSpeedMultiplierRefCurrent)
               /\ i \in Range(galaxyInstancesRef')
               /\ ~Disposed(i)'
               /\ GroupOf(i) \in sceneRef'.children]_vars

\* A tick has just passed an instance that was re-triggered while it
\* disintegrated and waits for its new delay: it is grown and away from
\* where it started, as the trigger left it, and it has turned.
C25_Witness ==
    /\ phase = "mounted"
    /\ lastFrameTime = clock
    /\ \E i \in Live :
        /\ PrimedAndWaiting(instances[i], clock)
        /\ RatLt(instances[i].disintegrationTriggerTime, FromInt(clock))
        /\ StartedBefore(instances[i])
        /\ instances[i].starSystem.scale # One
        /\ instances[i].group.position # instances[i].disintegrationInitialGroupPos
        /\ instances[i].group.rotationY # Zero

\* The shortest duration drawn, rand(2.0, 4.5) at its lower end, in ms.
ShortestDurationMs == FromInt(2 * MsPerSecond)

\* C26: a tick removes or releases an instance of the collection only if the
\* instance was Disintegrating when the tick began and its drawn duration,
\* which is at least 2000 ms, has elapsed since its animation start time;
\* so an Active or Primed instance is neither removed nor released by a
\* tick, and none is disposed in the tick in which it enters Disintegrating.
C26_RemovedOnlyAfterDuration ==
    [][IsTick
       => \A i \in Live :
            /\ (i \notin Range(galaxyInstancesRef') \/ Disposed(i)'
                \/ GroupOf(i) \notin sceneRef'.children)
               => /\ instances[i].isDisintegrating
                  /\ instances[i].disintegrationAnimationStartTime # Null
                  /\ RatLeq(RatAdd(instances[i].disintegrationAnimationStartTime,
                                   DurationMs(instances[i])),
                            FromInt(clock))
                  /\ RatLeq(RatAdd(instances[i].disintegrationAnimationStartTime,
                                   ShortestDurationMs),
                            FromInt(clock))
            /\ (~instances[i].isDisintegrating /\ instances'[i].isDisintegrating)
               => /\ i \in Range(galaxyInstancesRef')
                  /\ ~Disposed(i)']_vars

\* A tick has just removed an instance exactly 2000 ms, its duration, after
\* its start, and in the same tick another instance, whose delay ran until
\* now, has entered Disintegrating and is kept.
C26_Witness ==
    /\ phase = "mounted"
    /\ lastFrameTime = clock
    /\ \E j \in DOMAIN instances \ Live :
        /\ Disposed(j)
        /\ instances[j].isDisintegrating
        /\ DurationMs(instances[j]) = ShortestDurationMs
        /\ RatAdd(instances[j].disintegrationAnimationStartTime, ShortestDurationMs) =
              FromInt(clock)
    /\ \E i \in Live :
        /\ instances[i].isDisintegrating
        /\ instances[i].disintegrationAnimationStartTime = FromInt(clock)
        /\ ~Disposed(i)

\* The galaxy groups of the scene.
GroupsIn(scene) == {c \in scene.children : c[1] = "group"}

\* The scene holds the groups of the instances of the collection and no
\* other group, and no starfield but the one referenced.
SceneMatches(scene, list, backgroundStars) ==
    /\ GroupsIn(scene) = {GroupOf(i) : i \in Range(list)}
    /\ StarfieldsIn(scene) = IF backgroundStars = Null THEN {} ELSE {backgroundStars}

\* C27: after every step of the mounted component (tick, regeneration,
\* spread or count change, trigger) the groups in the scene are exactly the
\* groups of the instances of the collection, and the scene holds exactly
\* one starfield, the one referenced; the teardown leaves the scene without
\* group and without starfield, the collection empty and no starfield
\* referenced.
C27_SceneMatchesCollection ==
    [][/\ phase' = "mounted"
          => /\ SceneMatches(sceneRef', galaxyInstancesRef', backgroundStarsRef')
             /\ backgroundStarsRef' # Null
       /\ (phase = "mounted" /\ phase' = "unmounted")
          => /\ SceneMatches(CleanupWorld(World).scene, galaxyInstancesRef',
                             backgroundStarsRef')
             /\ CleanupWorld(World).scene.children = {}
             /\ galaxyInstancesRef' = <<>>
             /\ backgroundStarsRef' = Null]_vars

\* After a spread change and a trigger a tick has disposed one instance and
\* kept another: the scene holds the group of the one kept and the second
\* starfield, and nothing else.
C27_Witness ==
    /\ phase = "mounted"
    /\ lastFrameTime = clock
    /\ Len(starfields) = 2
    /\ \E i \in DOMAIN instances \ Live, j \in Live :
        /\ ProgressReachedOne(instances[i], lastFrameTime)
        /\ ~ProgressReachedOne(instances[i], lastFrameTime - FramePeriod)
        /\ Disposed(i)
        /\ galaxyInstancesRef = <<j>>
        /\ sceneRef.children = {GroupOf(j), <<"bg", 2>>}

\* Instance g with the four fields the trigger writes taken from instance h.
WithTriggerFieldsOf(g, h) ==
    [g EXCEPT !.disintegrationTriggerTime = h.disintegrationTriggerTime,
              !.disintegrationDelay = h.disintegrationDelay,
              !.isDisintegrating = h.isDisintegrating,
              !.disintegrationAnimationStartTime = h.disintegrationAnimationStartTime]

\* C28: a disintegration trigger changes the trigger time, the delay,
\* isDisintegrating and the animation start time of the instances of the
\* collection and nothing else: the collection, the scene, the starfield and
\* the releases are as before, an instance outside the collection is
\* unchanged, and every instance keeps its position, rotations, scale and
\* opacity, which the ticks leave as they are while the new delay runs; the
\* trigger key 0 of the mount primes nothing.
C28_TriggerWritesFourFieldsOnly ==
    [][/\ IsTrigger
          => /\ galaxyInstancesRef' = galaxyInstancesRef
             /\ sceneRef' = sceneRef
             /\ backgroundStarsRef' = backgroundStarsRef
             /\ starfields' = starfields
             /\ disposeCount' = disposeCount
             /\ DOMAIN instances' = DOMAIN instances
             /\ \A i \in DOMAIN instances :
                    IF i \in Live
                    THEN WithTriggerFieldsOf(instances'[i], instances[i]) = instances[i]
                    ELSE instances'[i] = instances[i]
       /\ IsTick
          => \A i \in Live :
                PrimedAndWaiting(instances[i], clock)
                => /\ instances'[i].group.position = instances[i].group.position
                   /\ instances'[i].starSystem.scale = instances[i].starSystem.scale
                   /\ instances'[i].starSystem.opacity = instances[i].starSystem.opacity
       /\ phase = "initial"
          => /\ props.disintegrationTriggerKey = 0
             /\ \A i \in Range(galaxyInstancesRef') : Active(instances'[i])]_vars

\* A second trigger has just primed an instance that was disintegrating: it
\* is faded and grown and away from its initial position, as the last tick
\* left it.
C28_Witness ==
    /\ phase = "mounted"
    /\ props.disintegrationTriggerKey = 2
    /\ \E i \in Live :
        /\ instances[i].disintegrationTriggerTime = FromInt(clock)
        /\ ~instances[i].isDisintegrating
        /\ instances[i].disintegrationAnimationStartTime = Null
        /\ StartedBefore(instances[i])
        /\ RatLt(One, instances[i].starSystem.scale)
        /\ RatLt(instances[i].starSystem.opacity, instances[i].originalStarMaterialOpacity)
        /\ instances[i].group.position # instances[i].disintegrationInitialGroupPos
        /\ instances[i].starSystem.rotationY # Zero

\* The step runs the generation effect: the mount, the Re-generate button,
\* the count slider or the spread slider.
IsGeneration ==
    phase = "initial" \/ IsRegenerate \/ IsCountChange \/ IsSpreadChange

\* C29: between two regenerations the collection only shrinks: a step that
\* is no regeneration (tick, trigger or any other) adds no instance and
\* leaves the collection no longer than it was; the collection is never
\* longer than the galaxy count of the last regeneration; and a trigger on
\* the empty collection changes nothing, so that an emptied collection
\* stays empty until the next regeneration.
C29_CollectionOnlyShrinks ==
    [][/\ ~IsGeneration
          => /\ Range(galaxyInstancesRef') \subseteq Range(galaxyInstancesRef)
             /\ Len(galaxyInstancesRef') <= Len(galaxyInstancesRef)
             /\ DOMAIN instances' = DOMAIN instances
       /\ Len(galaxyInstancesRef') <= props'.numGalaxies
       /\ Cardinality(Range(galaxyInstancesRef')) = Len(galaxyInstancesRef')
       /\ (IsTrigger /\ galaxyInstancesRef = <<>>)
          => /\ galaxyInstancesRef' = <<>>
             /\ instances' = instances
             /\ disposeCount' = disposeCount
             /\ sceneRef' = sceneRef]_vars

\* The collection of the mount was emptied by disintegration, and a second
\* trigger, later than that, found it empty: no instance carries its time.
C29_Witness ==
    /\ phase = "mounted"
    /\ props.regenerationKey = 0
    /\ props.disintegrationTriggerKey = 2
    /\ galaxyInstancesRef = <<>>
    /\ Len(instances) = props.numGalaxies
    /\ \A i \in DOMAIN instances :
        /\ Disposed(i)
        /\ ProgressReachedOne(instances[i], lastFrameTime)
        /\ RatLt(instances[i].disintegrationTriggerTime, FromInt(clock))

\* Starfield k has been released.
StarfieldReleased(k) == disposeCount[<<"bg", k>>] > 0

\* C30: when the teardown has run nothing is leaked: the star cloud of
\* every instance ever built, and its dust cloud if it has one, has been
\* released (by the completion of its disintegration, by a regeneration or
\* by the teardown), the collection is empty, every starfield ever built has
\* been released, and no starfield is referenced.
C30_TeardownLeaksNothing ==
    phase = "unmounted"
    => /\ \A i \in DOMAIN instances :
            /\ disposeCount[StarOf(i)] > 0
            /\ instances[i].dustSystem # Null => disposeCount[<<"dust", i>>] > 0
       /\ galaxyInstancesRef = <<>>
       /\ \A k \in DOMAIN starfields : StarfieldReleased(k)
       /\ backgroundStarsRef = Null
       /\ sceneRef = Null
       /\ ~animationFrameIdRef

\* The component was unmounted after a spread change and after frames had
\* run: two collections and two starfields were built, and all of them are
\* released.
C30_Witness ==
    /\ phase = "unmounted"
    /\ lastFrameTime > 0
    /\ Len(starfields) = 2
    /\ Len(instances) = 2 * MaxGalaxies
    /\ \A i \in DOMAIN instances : ReleasedTimes(i, 1)
    /\ \A k \in DOMAIN starfields : disposeCount[<<"bg", k>>] = 1
====
